---- MODULE Spec2Model ----
(***************************************************************************)
(* State-machine model of the readwise-cli full-screen interface:          *)
(* tui/app.ts (runApp, the per-view input handlers, the sub-form stack,    *)
(* executeTool), tui/index.ts (startTui) and tui/term.ts (screen control). *)
(*                                                                         *)
(* AppState is one record, replaced as a whole by every handler, exactly   *)
(* as in the source.  Handlers are operators from (state, key) to a        *)
(* result [tag, st] with tag "state", "exit" or "submit".  Indices are     *)
(* 0-based as in the source (At reads a sequence at a 0-based index).      *)
(* Strings are sequences of one-character strings.                         *)
(*                                                                         *)
(* Left out of AppState: the scroll offsets, nameColWidth and the date     *)
(* parts, which only the renderers and the date editor read.               *)
(***************************************************************************)
EXTENDS Integers, Sequences, FiniteSets, TLC

\* ------------------------------------------------------------------ bounds
\* longest text typed into a text editor
MaxBuf == 1
\* longest search query (command list and form palette)
MaxQuery == 1
\* most objects the form's array drafts hold, over all nesting levels
MaxItems == 1
\* cap of the monotonic spinner counter
MaxSpinner == 2
\* most objects the array drafts hold in the sessions without search text
MaxDeepItems == 2
\* most items a list-of-texts draft holds
MaxTags == 1
\* most adjustments that separate the date parts being edited from a clock reading
MaxDateSteps == 1
\* tokens (characters and escape sequences) of a string given to fitWidth
MaxToks == 3
\* the widths given to fitWidth: 0..MaxWidth
MaxWidth == 3
\* the terminal sizes painted: 1..MaxCols by 1..MaxRows
MaxCols == 6
MaxRows == 6

\* --------------------------------------------------------- string helpers
At(seq, i) == seq[i + 1]

IsSpace(c) == c = " "

RECURSIVE TrimLeft(_)
TrimLeft(s) == IF s # <<>> /\ IsSpace(Head(s)) THEN TrimLeft(Tail(s)) ELSE s

RECURSIVE TrimRight(_)
TrimRight(s) ==
  IF s # <<>> /\ IsSpace(s[Len(s)]) THEN TrimRight(SubSeq(s, 1, Len(s) - 1)) ELSE s

\* String.prototype.trim
Trim(s) == TrimRight(TrimLeft(s))

\* String.prototype.includes
Includes(hay, needle) ==
  \E i \in 0..(Len(hay) - Len(needle)) : SubSeq(hay, i + 1, i + Len(needle)) = needle

\* s.slice(0, pos) + text + s.slice(pos)
InsertAt(s, pos, text) == SubSeq(s, 1, pos) \o text \o SubSeq(s, pos + 1, Len(s))

\* s.slice(0, pos - 1) + s.slice(pos)
DeleteBefore(s, pos) == SubSeq(s, 1, pos - 1) \o SubSeq(s, pos + 1, Len(s))

\* Array.prototype.indexOf, 0-based, -1 when absent
IndexOf(seq, x) ==
  IF \E i \in 1..Len(seq) : seq[i] = x
  THEN (CHOOSE i \in 1..Len(seq) : seq[i] = x /\ \A j \in 1..(i - 1) : seq[j] # x) - 1
  ELSE -1

\* Array.prototype.findIndex over a predicate given as the set of matching positions
FirstIn(positions) ==
  IF positions = {} THEN -1
  ELSE (CHOOSE i \in positions : \A j \in positions : i <= j) - 1

RECURSIVE SelectIdx(_, _, _)
\* the 1-based positions i of seq, in order, with i in keep
SelectIdx(seq, keep, i) ==
  IF i > Len(seq) THEN <<>>
  ELSE (IF i \in keep THEN <<i>> ELSE <<>>) \o SelectIdx(seq, keep, i + 1)

\* ------------------------------------------------------ drafts and JSON
\* A draft is a string.  A draft that is the JSON text of an array is kept as
\* the array it encodes (t = "arr"): JSON.stringify and JSON.parse are inverse
\* on arrays of objects whose members are strings, booleans and such arrays.
\* No other draft over the model's alphabet parses as a JSON array.
Str(s) == [t |-> "str", s |-> s, a |-> <<>>, b |-> FALSE]
Arr(a) == [t |-> "arr", s |-> <<>>, a |-> a, b |-> FALSE]
Bool(b) == [t |-> "bool", s |-> <<>>, a |-> <<>>, b |-> b]

EmptyStr == Str(<<>>)
TrueS == <<"t", "r", "u", "e">>
FalseS == <<"f", "a", "l", "s", "e">>

\* JavaScript truthiness of a string draft
Truthy(d) == d.t = "arr" \/ d.s # <<>>

\* !!d?.trim()
TrimTruthy(d) == d.t = "arr" \/ Trim(d.s) # <<>>

\* values[name]; a missing key reads as undefined, which is falsy like ""
Get(values, name) == IF name \in DOMAIN values THEN values[name] ELSE EmptyStr

\* an update that builds a fresh object instead of spreading the old one
Put_Alone(values, name, d) == [n \in {name} |-> d]

\* { ...values, [name]: d }
Put(values, name, d) ==
  [n \in (DOMAIN values) \cup {name} |-> IF n = name THEN d ELSE values[n]]

\* let items = []; try { items = JSON.parse(d || "[]") } catch {}
ParseItems(d) == IF d.t = "arr" THEN d.a ELSE <<>>

\* ---------------------------------------------------------------- catalog
\* The tool catalog is an input of runApp.  Eight tools: one without
\* properties, one with a required text field and an optional boolean, one
\* with a required array of objects whose items nest another array of objects,
\* one whose array items hold an array of objects that has a schema default,
\* one with a date and an enum, one with a list of texts, one with a
\* multi-select, one with a required array of objects and an optional boolean.
\* A property: items is the id of the item schema when items.properties is
\* present; enum and itemsEnum are <<>> when absent; format is "none" when absent.
NoDefault == [has |-> FALSE, v |-> EmptyStr]
TextProp ==
  [type |-> "string", items |-> "none", default |-> NoDefault,
   enum |-> <<>>, itemsEnum |-> <<>>, format |-> "none"]
BoolProp == [TextProp EXCEPT !.type = "boolean"]
ArrObjProp(schema) == [TextProp EXCEPT !.type = "array", !.items = schema]
ArrObjDefault(schema, v) ==
  [ArrObjProp(schema) EXCEPT !.default = [has |-> TRUE, v |-> v]]
EnumProp(choices) == [TextProp EXCEPT !.enum = choices]
ArrEnumProp(choices) == [TextProp EXCEPT !.type = "array", !.itemsEnum = choices]
ArrTextProp == [TextProp EXCEPT !.type = "array"]
DateProp(fmt) == [TextProp EXCEPT !.format = fmt]
TextDefault(v) == [TextProp EXCEPT !.default = [has |-> TRUE, v |-> Str(v)]]

\* the choices of the two enumerations of the catalog
Locations == << <<"n", "e", "w">>, <<"l", "a", "t", "e", "r">> >>
Categories == << <<"r", "s", "s">>, <<"p", "d", "f">> >>

Schema(id) ==
  CASE id = "ping" -> [properties |-> <<>>, required |-> {}]
    [] id = "save" -> [properties |-> << [name |-> "url", prop |-> TextProp],
                                         [name |-> "done", prop |-> BoolProp] >>,
                       required |-> {"url"}]
    [] id = "note" -> [properties |-> << [name |-> "items", prop |-> ArrObjProp("item")] >>,
                       required |-> {"items"}]
    [] id = "pinned" -> [properties |-> << [name |-> "list", prop |-> ArrObjProp("sub")],
                                           [name |-> "pin", prop |-> BoolProp] >>,
                         required |-> {"list"}]
    [] id = "item" -> [properties |-> << [name |-> "ok", prop |-> BoolProp],
                                         [name |-> "subs", prop |-> ArrObjProp("sub")] >>,
                       required |-> {"ok"}]
    [] id = "sub" -> [properties |-> << [name |-> "flag", prop |-> BoolProp] >>,
                      required |-> {"flag"}]
    [] id = "list" -> [properties |-> << [name |-> "when", prop |-> DateProp("date")],
                                         [name |-> "location", prop |-> EnumProp(Locations)] >>,
                       required |-> {"when", "location"}]
    [] id = "tags" -> [properties |-> << [name |-> "tags", prop |-> ArrTextProp] >>,
                       required |-> {}]
    [] id = "pick" -> [properties |-> << [name |-> "category",
                                          prop |-> ArrEnumProp(Categories)] >>,
                       required |-> {}]
    [] id = "tag" -> [properties |-> << [name |-> "rows", prop |-> ArrObjProp("row")] >>,
                      required |-> {}]
    [] id = "row" -> [properties |-> << [name |-> "cells",
                                         prop |-> ArrObjDefault("sub",
                                                    Arr(<<("flag" :> Bool(TRUE))>>))] >>,
                      required |-> {}]
    [] id = "entry" -> [properties |-> << [name |-> "url", prop |-> TextDefault(<<"t">>)] >>,
                        required |-> {}]

\* tools in catalog order; hay is (label + " " + name + " " + description)
\* lower-cased, as filterCommands builds it
Tools ==
  << [name |-> "reader_ping", group |-> "Reader", schema |-> "ping",
      hay |-> <<"p","i","n","g"," ","r","e","a","d","e","r","_","p","i","n","g"," ">>],
     [name |-> "reader_save", group |-> "Reader", schema |-> "save",
      hay |-> <<"s","a","v","e"," ","r","e","a","d","e","r","_","s","a","v","e"," ">>],
     [name |-> "readwise_note", group |-> "Readwise", schema |-> "note",
      hay |-> <<"n","o","t","e"," ","r","e","a","d","w","i","s","e","_","n","o","t","e"," ">>],
     [name |-> "readwise_tag", group |-> "Readwise", schema |-> "tag",
      hay |-> <<"t","a","g"," ","r","e","a","d","w","i","s","e","_","t","a","g"," ">>],
     [name |-> "reader_list", group |-> "Reader", schema |-> "list",
      hay |-> <<"l","i","s","t"," ","r","e","a","d","e","r","_","l","i","s","t"," ">>],
     [name |-> "reader_tags", group |-> "Reader", schema |-> "tags",
      hay |-> <<"t","a","g","s"," ","r","e","a","d","e","r","_","t","a","g","s"," ">>],
     [name |-> "reader_pick", group |-> "Reader", schema |-> "pick",
      hay |-> <<"p","i","c","k"," ","r","e","a","d","e","r","_","p","i","c","k"," ">>],
     [name |-> "readwise_pin", group |-> "Readwise", schema |-> "pinned",
      hay |-> <<"p","i","n"," ","r","e","a","d","w","i","s","e","_","p","i","n"," ">>] >>

\* the tools whose fields use the date, enum, list and multi-select editors,
\* and the tool with a required array of objects next to an optional field
KindTools == {"reader_list", "reader_tags", "reader_pick", "readwise_pin"}

\* the tools that between them have a field of every editor kind
EditorTools == KindTools \cup {"reader_save"}

\* the characters of a field name, for the palette search
NameChars(name) ==
  CASE name = "url" -> <<"u", "r", "l">>
    [] name = "done" -> <<"d", "o", "n", "e">>
    [] name = "items" -> <<"i", "t", "e", "m", "s">>
    [] name = "pin" -> <<"p", "i", "n">>
    [] name = "list" -> <<"l", "i", "s", "t">>
    [] name = "ok" -> <<"o", "k">>
    [] name = "subs" -> <<"s", "u", "b", "s">>
    [] name = "flag" -> <<"f", "l", "a", "g">>
    [] name = "when" -> <<"w", "h", "e", "n">>
    [] name = "location" -> <<"l", "o", "c", "a", "t", "i", "o", "n">>
    [] name = "tags" -> <<"t", "a", "g", "s">>
    [] name = "category" -> <<"c", "a", "t", "e", "g", "o", "r", "y">>
    [] name = "rows" -> <<"r", "o", "w", "s">>
    [] name = "cells" -> <<"c", "e", "l", "l", "s">>

\* Object.entries(properties).map(([name, rawProp]) => ({ name, prop, required }))
BuildFields(schema) ==
  [i \in 1..Len(Schema(schema).properties) |->
     [name |-> Schema(schema).properties[i].name,
      prop |-> Schema(schema).properties[i].prop,
      required |-> Schema(schema).properties[i].name \in Schema(schema).required]]

isArrayOfObjects(prop) == prop.type = "array" /\ prop.items # "none"

\* ------------------------------------------------------------------- keys
\* parseKey's result: name, ctrl, and ch, the character when raw is one
\* printable character (raw.length === 1 && raw >= " ") and "" otherwise
Key(name, ctrl, ch) == [name |-> name, ctrl |-> ctrl, ch |-> ch]

Chars == {"q", "o", " "}

Keys ==
  { Key("escape", FALSE, ""), Key("c", TRUE, ""), Key("return", FALSE, ""),
    Key("tab", FALSE, ""), Key("backspace", FALSE, ""),
    Key("up", FALSE, ""), Key("down", FALSE, "") }
  \cup { Key(c, FALSE, c) : c \in Chars }

\* the keys of the sessions on the date, enum, list and multi-select editors:
\* t is the date editor's "today" and the one letter typed into a list item
KindKeys ==
  { Key("escape", FALSE, ""), Key("c", TRUE, ""), Key("return", FALSE, ""),
    Key("tab", FALSE, ""), Key("backspace", FALSE, ""),
    Key("up", FALSE, ""), Key("down", FALSE, ""),
    Key(" ", FALSE, " "), Key("t", FALSE, "t") }

IsCtrlC(key) == key.ctrl /\ key.name = "c"

\* -------------------------------------------------------- command list
Item(value) == [value |-> value, isSeparator |-> FALSE]
Separator == [value |-> "", isSeparator |-> TRUE]

RECURSIVE GroupItems(_, _)
GroupItems(group, i) ==
  IF i > Len(Tools) THEN <<>>
  ELSE (IF Tools[i].group = group THEN <<Item(Tools[i].name)>> ELSE <<>>)
       \o GroupItems(group, i + 1)

GroupBlock(group) ==
  IF GroupItems(group, 1) = <<>> THEN <<>> ELSE <<Separator>> \o GroupItems(group, 1)

buildCommandList == GroupBlock("Reader") \o GroupBlock("Readwise") \o GroupBlock("Other")

selectableIndices(items) ==
  [k \in 1..Len(SelectIdx(items, {i \in 1..Len(items) : ~items[i].isSeparator}, 1)) |->
     SelectIdx(items, {i \in 1..Len(items) : ~items[i].isSeparator}, 1)[k] - 1]

RECURSIVE MatchingItems(_, _)
MatchingItems(query, i) ==
  IF i > Len(Tools) THEN <<>>
  ELSE (IF Includes(Tools[i].hay, query) THEN <<Item(Tools[i].name)>> ELSE <<>>)
       \o MatchingItems(query, i + 1)

filterCommands(query) ==
  IF query = <<>> THEN buildCommandList ELSE MatchingItems(query, 1)

\* sel[0] ?? 0
FirstSelectable(items) ==
  IF selectableIndices(items) = <<>> THEN 0 ELSE selectableIndices(items)[1]

\* ----------------------------------------------------------- form helpers
filterFormFields(fields, query) ==
  IF query = <<>> THEN [i \in 1..(Len(fields) + 1) |-> IF i <= Len(fields) THEN i - 1 ELSE -1]
  ELSE [k \in 1..Len(SelectIdx(fields,
                        {i \in 1..Len(fields) : Includes(NameChars(fields[i].name), query)}, 1))
          |-> SelectIdx(fields,
                        {i \in 1..Len(fields) : Includes(NameChars(fields[i].name), query)}, 1)[k] - 1]
       \o <<-1>>

executeIndex(filtered) == IndexOf(filtered, -1)

\* a filter that forgets the array-of-objects rule
IsMissing_BlankOnly(f, values) == f.required /\ ~TrimTruthy(Get(values, f.name))

\* the filter predicate of missingRequiredFields
IsMissing(f, values) ==
  /\ f.required
  /\ \/ ~TrimTruthy(Get(values, f.name))
     \/ /\ isArrayOfObjects(f.prop)
        /\ \/ Get(values, f.name).t # "arr"
           \/ Len(Get(values, f.name).a) = 0

\* names of the missing required fields
missingRequiredFields(fields, values) ==
  { fields[i].name : i \in {j \in 1..Len(fields) : IsMissing(fields[j], values)} }

defaultFormCursor(fields, filtered, values) ==
  IF FirstIn({p \in 1..Len(filtered) :
                 /\ filtered[p] >= 0
                 /\ fields[filtered[p] + 1].name \in missingRequiredFields(fields, values)}) >= 0
  THEN FirstIn({p \in 1..Len(filtered) :
                 /\ filtered[p] >= 0
                 /\ fields[filtered[p] + 1].name \in missingRequiredFields(fields, values)})
  ELSE executeIndex(filtered)

\* fields.findIndex((f) => f.required && !values[f.name]?.trim())
FirstBlankRequired(fields, values) ==
  FirstIn({i \in 1..Len(fields) :
             fields[i].required /\ ~TrimTruthy(Get(values, fields[i].name))})

\* ------------------------------------------------------------ the state
VARIABLES
  state,      \* runApp's AppState
  quitTimer,  \* runApp's quitTimer handle: 0 is null, else the id of a timeout
  timers,     \* ids of the timeouts that are scheduled and neither fired nor cleared
  spinnerOn,  \* the spinner interval is active (until clearInterval)
  listening,  \* onData is attached to stdin
  rawMode,    \* stdin raw mode
  fullScreen, \* the alternate screen, hidden cursor, paste and keyboard modes are on
  tui,        \* startTui: "running", "exited" (its finally block ran), "killed"
  inFlight,   \* the AppState captured by each executeTool call that has not returned
  now,        \* the local time new Date() reads: <<year, month, day, hour, minute>>
  probe       \* the application of a function outside runApp that is examined

vars == <<state, quitTimer, timers, spinnerOn, listening, rawMode, fullScreen, tui, inFlight, now, probe>>

\* no function outside runApp is examined
NoProbe == [op |-> "none"]

\* handler results
St(s) == [tag |-> "state", st |-> s]
Exit(s) == [tag |-> "exit", st |-> s]
Submit(s) == [tag |-> "submit", st |-> s]

EMPTY_LIST_SENTINEL == << "EMPTY_LIST" >>

InitialState ==
  [ view |-> "commands",
    listCursor |-> FirstSelectable(buildCommandList),
    listScrollTop |-> 0,
    quitConfirm |-> FALSE,
    searchQuery |-> <<>>,
    searchCursorPos |-> 0,
    filteredItems |-> buildCommandList,
    selectedTool |-> "null",
    fields |-> <<>>,
    formSearchQuery |-> <<>>,
    formSearchCursorPos |-> 0,
    formFilteredIndices |-> <<>>,
    formListCursor |-> 0,
    formEditFieldIdx |-> -1,
    formEditing |-> FALSE,
    formInputBuf |-> <<>>,
    formInputCursorPos |-> 0,
    formEnumCursor |-> 0,
    formEnumSelected |-> {},
    dateParts |-> <<>>,
    datePartCursor |-> 0,
    formValues |-> <<>>,
    formShowRequired |-> FALSE,
    formShowOptional |-> FALSE,
    formStack |-> <<>>,
    result |-> <<>>,
    error |-> "",
    spinnerFrame |-> 0 ]

\* ----------------------------------------------------------- date helpers
DigitChars == <<"0", "1", "2", "3", "4", "5", "6", "7", "8", "9">>

IsDigit(c) == \E d \in 1..10 : DigitChars[d] = c

\* the value of a digit character
DigitValue(c) == (CHOOSE d \in 1..10 : DigitChars[d] = c) - 1

RECURSIVE DecimalOf(_)
\* String(n) for an integer n >= 0
DecimalOf(n) ==
  IF n < 10 THEN <<DigitChars[n + 1]>>
  ELSE DecimalOf(n \div 10) \o <<DigitChars[(n % 10) + 1]>>

RECURSIVE PadStart(_, _)
\* str.padStart(width, "0")
PadStart(str, width) == IF Len(str) >= width THEN str ELSE PadStart(<<"0">> \o str, width)

RECURSIVE NumberOf(_)
\* Number(str) for a string of digits
NumberOf(str) ==
  IF str = <<>> THEN 0
  ELSE 10 * NumberOf(SubSeq(str, 1, Len(str) - 1)) + DigitValue(str[Len(str)])

AllDigits(str) == \A i \in 1..Len(str) : IsDigit(str[i])

dateFieldFormat(prop) == IF prop.format \in {"date", "date-time"} THEN prop.format ELSE "null"

IsLeap(year) == (year % 4 = 0 /\ year % 100 # 0) \/ year % 400 = 0

\* new Date(year, month, 0).getDate(): the last day of month number `month`;
\* Date maps the years 0..99 to 1900..1999 and carries months outside 1..12
\* into the neighbouring years
daysInMonth(year, month) ==
  LET y0 == IF year >= 0 /\ year <= 99 THEN 1900 + year ELSE year
      y == y0 + ((month - 1) \div 12)
      m == ((month - 1) % 12) + 1
  IN IF m = 2 THEN (IF IsLeap(y) THEN 29 ELSE 28)
     ELSE IF m \in {4, 6, 9, 11} THEN 30 ELSE 31

todayParts(fmt) == IF fmt = "date-time" THEN now ELSE SubSeq(now, 1, 3)

\* the positions at which value holds T, two digits, a colon and two digits
TimeMatches(value) ==
  { i \in 1..(Len(value) - 5) :
      /\ value[i] = "T"
      /\ AllDigits(SubSeq(value, i + 1, i + 2))
      /\ value[i + 3] = ":"
      /\ AllDigits(SubSeq(value, i + 4, i + 5)) }

\* <<>> stands for null
parseDateParts(value, fmt) ==
  IF /\ Len(value) >= 10
     /\ AllDigits(SubSeq(value, 1, 4)) /\ value[5] = "-"
     /\ AllDigits(SubSeq(value, 6, 7)) /\ value[8] = "-"
     /\ AllDigits(SubSeq(value, 9, 10))
  THEN LET ymd == << NumberOf(SubSeq(value, 1, 4)), NumberOf(SubSeq(value, 6, 7)),
                     NumberOf(SubSeq(value, 9, 10)) >>
           tm == IF TimeMatches(value) = {} THEN 0
                 ELSE CHOOSE i \in TimeMatches(value) : \A j \in TimeMatches(value) : i <= j
       IN IF fmt = "date-time"
          THEN ymd \o (IF tm = 0 THEN <<0, 0>>
                       ELSE << NumberOf(SubSeq(value, tm + 1, tm + 2)),
                               NumberOf(SubSeq(value, tm + 4, tm + 5)) >>)
          ELSE ymd
  ELSE <<>>

\* parts[i] ?? 0
PartOr0(parts, i) == IF i <= Len(parts) THEN parts[i] ELSE 0

datePartsToString(parts, fmt) ==
  LET ymd == PadStart(DecimalOf(parts[1]), 4) \o <<"-">> \o PadStart(DecimalOf(parts[2]), 2)
               \o <<"-">> \o PadStart(DecimalOf(parts[3]), 2)
  IN IF fmt = "date" THEN ymd
     ELSE ymd \o <<"T">> \o PadStart(DecimalOf(PartOr0(parts, 4)), 2) \o <<":">>
              \o PadStart(DecimalOf(PartOr0(parts, 5)), 2) \o <<":", "0", "0", "Z">>

Clamp_NoUpper(lo, hi, x) == IF x < lo THEN lo ELSE x

\* Math.max(lo, Math.min(hi, x))
Clamp(lo, hi, x) == IF x < lo THEN lo ELSE IF x > hi THEN hi ELSE x

adjustDatePart_NoDayClamp(parts, cursor, delta, fmt) ==
  IF cursor = 0 THEN [parts EXCEPT ![1] = Clamp(1900, 2100, parts[1] + delta)]
  ELSE IF cursor = 1 THEN [parts EXCEPT ![2] = ((parts[2] - 1 + delta + 120) % 12) + 1]
  ELSE IF cursor = 2
  THEN [parts EXCEPT ![3] = ((parts[3] - 1 + delta + daysInMonth(parts[1], parts[2]) * 100)
                              % daysInMonth(parts[1], parts[2])) + 1]
  ELSE IF cursor = 3 /\ fmt = "date-time"
  THEN [parts EXCEPT ![4] = (parts[4] + delta + 240) % 24]
  ELSE IF cursor = 4 /\ fmt = "date-time"
  THEN [parts EXCEPT ![5] = (parts[5] + delta + 600) % 60]
  ELSE parts

adjustDatePart(parts, cursor, delta, fmt) ==
  LET p == IF cursor = 0 THEN [parts EXCEPT ![1] = Clamp(1900, 2100, parts[1] + delta)]
           ELSE IF cursor = 1 THEN [parts EXCEPT ![2] = ((parts[2] - 1 + delta + 120) % 12) + 1]
           ELSE IF cursor = 2
           THEN [parts EXCEPT ![3] = ((parts[3] - 1 + delta
                                        + daysInMonth(parts[1], parts[2]) * 100)
                                       % daysInMonth(parts[1], parts[2])) + 1]
           ELSE IF cursor = 3 /\ fmt = "date-time"
           THEN [parts EXCEPT ![4] = (parts[4] + delta + 240) % 24]
           ELSE IF cursor = 4 /\ fmt = "date-time"
           THEN [parts EXCEPT ![5] = (parts[5] + delta + 600) % 60]
           ELSE parts
  IN IF p[3] > daysInMonth(p[1], p[2]) THEN [p EXCEPT ![3] = daysInMonth(p[1], p[2])] ELSE p

datePartCount(fmt) == IF fmt = "date" THEN 3 ELSE 5

\* ------------------------------------------------------- choice helpers
\* s.split(",")
RECURSIVE SplitComma(_)
SplitComma(s) ==
  IF \A i \in 1..Len(s) : s[i] # "," THEN <<s>>
  ELSE LET k == CHOOSE i \in 1..Len(s) : s[i] = "," /\ \A j \in 1..(i - 1) : s[j] # ","
       IN <<SubSeq(s, 1, k - 1)>> \o SplitComma(SubSeq(s, k + 1, Len(s)))

\* val.split(",").map((s) => s.trim()).filter(Boolean)
SplitStrings(s) ==
  SelectSeq([i \in 1..Len(SplitComma(s)) |-> Trim(SplitComma(s)[i])], LAMBDA x : x # <<>>)

\* the same list as JSON strings
SplitItems(s) == [i \in 1..Len(SplitStrings(s)) |-> Str(SplitStrings(s)[i])]

\* prop.enum || prop.items?.enum; <<>> stands for undefined
enumValues(prop) == IF prop.enum # <<>> THEN prop.enum ELSE prop.itemsEnum

isArrayEnum(prop) == prop.type = "array" /\ prop.itemsEnum # <<>>

RECURSIVE JoinWith(_, _)
\* strs.join(sep)
JoinWith(strs, sep) ==
  IF strs = <<>> THEN <<>>
  ELSE IF Len(strs) = 1 THEN strs[1]
  ELSE strs[1] \o sep \o JoinWith(Tail(strs), sep)

CommaSpace == <<",", " ">>

RECURSIVE SortedChoices(_, _, _)
\* [...selected].sort((a, b) => a - b).map((i) => choices[i])
SortedChoices(choices, selected, i) ==
  IF i >= Len(choices) THEN <<>>
  ELSE (IF i \in selected THEN <<At(choices, i)>> ELSE <<>>)
       \o SortedChoices(choices, selected, i + 1)

\* the draft of a multi-select: selected.join(", ")
SelectedDraft(choices, selected) == Str(JoinWith(SortedChoices(choices, selected, 0), CommaSpace))

\* ------------------------------------------------------ startEditingField
classifyField(prop) ==
  IF isArrayOfObjects(prop) THEN "arrayObj"
  ELSE IF dateFieldFormat(prop) # "null" THEN "date"
  ELSE IF prop.type = "boolean" THEN "bool"
  ELSE IF enumValues(prop) # <<>> /\ prop.type = "array" THEN "arrayEnum"
  ELSE IF enumValues(prop) # <<>> THEN "enum"
  ELSE IF prop.type = "array" THEN "arrayText"
  ELSE "text"

\* the choices of the enum/bool picker
Choices(prop) == IF prop.type = "boolean" THEN <<TrueS, FalseS>> ELSE enumValues(prop)

\* the indices of the choices named in a multi-select draft
SelectedOf(choices, curVal) ==
  IF curVal = <<>> THEN {}
  ELSE { IndexOf(choices, Trim(SplitComma(curVal)[i])) : i \in 1..Len(SplitComma(curVal)) }
       \ {-1}

\* the editor startEditingField prepares for a property: the branch taken at
\* lines 1520, 1527, 1535, 1547, 1553 or the text editor of 1558
startEditingKind(prop) ==
  IF isArrayOfObjects(prop) THEN "arrayObj"
  ELSE IF dateFieldFormat(prop) # "null" THEN "date"
  ELSE IF isArrayEnum(prop) /\ enumValues(prop) # <<>> THEN "arrayEnum"
  ELSE IF enumValues(prop) # <<>> \/ prop.type = "boolean"
  THEN (IF prop.type = "boolean" THEN "bool" ELSE "enum")
  ELSE IF prop.type = "array" /\ prop.itemsEnum = <<>> THEN "arrayText"
  ELSE "text"

\* the branch of handleFormEditInput that handles a key other than Escape and
\* Ctrl+C: lines 1890, 1975, 2004, 2032, 2050 or the text editor of 2114
editInputKind(prop) ==
  IF isArrayOfObjects(prop) THEN "arrayObj"
  ELSE IF dateFieldFormat(prop) # "null" THEN "date"
  ELSE IF isArrayEnum(prop) /\ enumValues(prop) # <<>> THEN "arrayEnum"
  ELSE IF enumValues(prop) # <<>> \/ prop.type = "boolean"
  THEN (IF prop.type = "boolean" THEN "bool" ELSE "enum")
  ELSE IF prop.type = "array" /\ prop.itemsEnum = <<>> THEN "arrayText"
  ELSE "text"

\* Escape confirms the selections of a multi-select (lines 1876-1877);
\* in every other case it cancels the edit
escapeConfirms(prop) == isArrayEnum(prop) /\ enumValues(prop) # <<>>

startEditingField(s, fieldIdx) ==
  LET field == At(s.fields, fieldIdx)
      cur == Get(s.formValues, field.name)
      dateFmt == dateFieldFormat(field.prop)
      kind == startEditingKind(field.prop)
  IN
  IF kind = "arrayObj"
  THEN [s EXCEPT !.formEditing = TRUE, !.formEditFieldIdx = fieldIdx,
                 !.formEnumCursor = Len(ParseItems(cur))]
  ELSE IF kind = "date"
  THEN [s EXCEPT !.formEditing = TRUE, !.formEditFieldIdx = fieldIdx,
                 !.dateParts = IF parseDateParts(cur.s, dateFmt) # <<>>
                               THEN parseDateParts(cur.s, dateFmt) ELSE todayParts(dateFmt),
                 !.datePartCursor = 0]
  ELSE IF kind = "arrayEnum"
  THEN [s EXCEPT !.formEditing = TRUE, !.formEditFieldIdx = fieldIdx,
                 !.formEnumCursor = 0,
                 !.formEnumSelected = SelectedOf(enumValues(field.prop), cur.s)]
  ELSE IF kind \in {"enum", "bool"}
  THEN [s EXCEPT !.formEditing = TRUE, !.formEditFieldIdx = fieldIdx,
                 !.formEnumCursor = IF IndexOf(Choices(field.prop), cur.s) >= 0
                                    THEN IndexOf(Choices(field.prop), cur.s) ELSE 0]
  ELSE IF kind = "arrayText"
  THEN [s EXCEPT !.formEditing = TRUE, !.formEditFieldIdx = fieldIdx,
                 !.formInputBuf = <<>>, !.formInputCursorPos = 0,
                 !.formEnumCursor = Len(SplitStrings(cur.s))]
  ELSE [s EXCEPT !.formEditing = TRUE, !.formEditFieldIdx = fieldIdx,
                 !.formInputBuf = cur.s, !.formInputCursorPos = Len(cur.s)]

\* ------------------------------------------------- handleCommandListInput
\* the tool of catalog whose name is value (tools.find)
ToolNamed(value) == CHOOSE t \in {Tools[i] : i \in 1..Len(Tools)} : t.name = value

\* Enter on a tool without parameters: the state returned at lines 1434-1456
NoFields_ToForm(cleared) ==
  [cleared EXCEPT !.view = "form", !.formFilteredIndices = <<>>, !.formListCursor = 0]

NoFields(cleared) ==
  [cleared EXCEPT !.view = "loading", !.formFilteredIndices = <<>>, !.formListCursor = 0]

\* the value of an array element that does not exist
Undefined == -1

\* process.stdout.rows ?? 24
screenRows == IF probe.op = "terminal" THEN probe.rows ELSE 24

\* LOGO.length; the logo is imported from logo.js
LogoLength == IF probe.op = "terminal" THEN probe.logo ELSE 0

\* Math.max(1, contentHeight - logoUsed), contentHeight = Math.max(1, rows - 4)
listHeight ==
  LET contentHeight == IF screenRows - 4 > 1 THEN screenRows - 4 ELSE 1
      logoUsed == LogoLength + 3
  IN IF contentHeight - logoUsed > 1 THEN contentHeight - logoUsed ELSE 1

\* the form opened on a tool with the given fields (lines 1428-1491)
OpenForm(s, toolName, fields) ==
  LET formValues == [n \in {fields[i].name : i \in 1..Len(fields)} |-> EmptyStr]
      filteredIndices == filterFormFields(fields, <<>>)
      firstBlankRequired == FirstBlankRequired(fields, formValues)
      cleared == [s EXCEPT !.selectedTool = toolName,
                           !.fields = fields,
                           !.formValues = formValues,
                           !.formSearchQuery = <<>>,
                           !.formSearchCursorPos = 0,
                           !.formEditFieldIdx = -1,
                           !.formEditing = FALSE,
                           !.formInputBuf = <<>>,
                           !.formInputCursorPos = 0,
                           !.formEnumCursor = 0,
                           !.formEnumSelected = {},
                           !.formShowRequired = FALSE,
                           !.formShowOptional = FALSE,
                           !.formStack = <<>>]
      baseState == [cleared EXCEPT !.view = "form",
                                   !.formFilteredIndices = filteredIndices,
                                   !.formListCursor =
                                      defaultFormCursor(fields, filteredIndices, formValues)]
  IN
  IF Len(fields) = 0
  THEN NoFields(cleared)
  ELSE IF firstBlankRequired >= 0 THEN startEditingField(baseState, firstBlankRequired)
  ELSE baseState

\* Enter on a command: the new form state (lines 1411-1491)
SelectCommand(s) ==
  LET item == At(s.filteredItems, s.listCursor)
      tool == ToolNamed(item.value)
  IN
  IF s.listCursor = Undefined \/ s.listCursor >= Len(s.filteredItems) THEN s
  ELSE IF item.isSeparator THEN s
  ELSE OpenForm(s, tool.name, BuildFields(tool.schema))

\* the search query replaced: the list is filtered again and the cursor reset
WithQuery(s, newQuery, newPos) ==
  [s EXCEPT !.searchQuery = newQuery, !.searchCursorPos = newPos,
            !.filteredItems = filterCommands(newQuery),
            !.listCursor = FirstSelectable(filterCommands(newQuery)),
            !.listScrollTop = 0]

\* a handler under which any other key arms the quit confirmation
CancelQuitConfirm_Arms(state0) == [state0 EXCEPT !.quitConfirm = TRUE]

\* const s = state.quitConfirm ? { ...state, quitConfirm: false } : state
CancelQuitConfirm(state0) ==
  IF state0.quitConfirm THEN [state0 EXCEPT !.quitConfirm = FALSE] ELSE state0

\* selectable[i] of an index that may lie outside the array
SelectableAt(selectable, i) ==
  IF i >= 0 /\ i < Len(selectable) THEN At(selectable, i) ELSE Undefined

\* the cursor moved up to next: if (next < scroll) scroll = next
ScrollUp(s, next) ==
  [s EXCEPT !.listCursor = next,
            !.listScrollTop = IF next # Undefined /\ next < s.listScrollTop
                              THEN next ELSE s.listScrollTop]

\* the cursor moved down to next:
\* if (next >= scroll + listHeight) scroll = next - listHeight + 1
ScrollDown(s, next) ==
  [s EXCEPT !.listCursor = next,
            !.listScrollTop = IF next # Undefined /\ next >= s.listScrollTop + listHeight
                              THEN next - listHeight + 1 ELSE s.listScrollTop]

handleCommandListInput(state0, key) ==
  LET selectable == selectableIndices(state0.filteredItems)
      s == CancelQuitConfirm(state0)
      curIdx == IndexOf(selectable, s.listCursor)
  IN
  IF key.name = "escape" \/ IsCtrlC(key)
  THEN IF state0.searchQuery # <<>>
       THEN St([WithQuery(state0, <<>>, 0) EXCEPT !.quitConfirm = FALSE])
       ELSE IF state0.quitConfirm THEN Exit(state0)
       ELSE St([state0 EXCEPT !.quitConfirm = TRUE])
  ELSE IF key.name = "q" /\ ~key.ctrl /\ state0.searchQuery = <<>>
  THEN IF state0.quitConfirm THEN Exit(state0)
       ELSE St([state0 EXCEPT !.quitConfirm = TRUE])
  ELSE IF key.name = "left"
  THEN St([s EXCEPT !.searchCursorPos = IF s.searchCursorPos - 1 > 0
                                        THEN s.searchCursorPos - 1 ELSE 0])
  ELSE IF key.name = "right"
  THEN St([s EXCEPT !.searchCursorPos = IF s.searchCursorPos + 1 < Len(s.searchQuery)
                                        THEN s.searchCursorPos + 1 ELSE Len(s.searchQuery)])
  ELSE IF key.name = "up"
  THEN IF curIdx > 0 THEN St(ScrollUp(s, At(selectable, curIdx - 1))) ELSE St(s)
  ELSE IF key.name = "down"
  THEN IF curIdx < Len(selectable) - 1
       THEN St(ScrollDown(s, At(selectable, curIdx + 1))) ELSE St(s)
  ELSE IF key.name = "pageup"
  THEN St(ScrollUp(s, SelectableAt(selectable,
                        IF curIdx - listHeight > 0 THEN curIdx - listHeight ELSE 0)))
  ELSE IF key.name = "pagedown"
  THEN St(ScrollDown(s, SelectableAt(selectable,
                          IF curIdx + listHeight < Len(selectable) - 1
                          THEN curIdx + listHeight ELSE Len(selectable) - 1)))
  ELSE IF key.name = "return" THEN St(SelectCommand(s))
  ELSE IF key.name = "backspace"
  THEN IF s.searchCursorPos > 0
       THEN St(WithQuery(s, DeleteBefore(s.searchQuery, s.searchCursorPos),
                         s.searchCursorPos - 1))
       ELSE St(s)
  ELSE IF ~key.ctrl /\ key.ch # ""
  THEN St(WithQuery(s, InsertAt(s.searchQuery, s.searchCursorPos, <<key.ch>>),
                    s.searchCursorPos + 1))
  ELSE St(s)

\* ------------------------------------------------------------ sub-forms
\* A FormStackEntry without parentNameColWidth and parentTitle (render only)
StackEntry(name, fields, values, editIndex) ==
  [parentFieldName |-> name, parentFields |-> fields, parentValues |-> values,
   editIndex |-> editIndex]

\* the JSON member popFormStack writes for one non-empty draft
SerializeDraft(prop, val) ==
  IF prop.type = "boolean" THEN Bool(val.s = TrueS)
  ELSE IF prop.type = "array"
  THEN (IF val.t = "arr" THEN Arr(val.a) ELSE Arr(SplitItems(val.s)))
  ELSE Str(val.s)

\* the sub-form's values as a JSON object: only the non-empty drafts
SubObject(fields, values) ==
  [n \in {fields[i].name : i \in {j \in 1..Len(fields) : Truthy(Get(values, fields[j].name))}}
     |-> SerializeDraft((CHOOSE f \in {fields[i] : i \in 1..Len(fields)} : f.name = n).prop,
                        Get(values, n))]

\* index of the field named name (findIndex)
FieldIndex(fields, name) == FirstIn({i \in 1..Len(fields) : fields[i].name = name})

\* a write that always pushes
WriteItem_Push(parentArr, editIndex, subObj) == Append(parentArr, subObj)

\* parentArr[editIndex] = subObj, or parentArr.push(subObj)
WriteItem(parentArr, editIndex, subObj) ==
  IF editIndex >= 0
  THEN [i \in 1..Len(parentArr) |-> IF i = editIndex + 1 THEN subObj ELSE parentArr[i]]
  ELSE Append(parentArr, subObj)

\* a return to the parent that leaves the entry on the stack
RestoreParent_KeepsEntry(s, entry, values) ==
  [s EXCEPT !.fields = entry.parentFields,
            !.formValues = values,
            !.formEditing = TRUE,
            !.formEditFieldIdx = FieldIndex(entry.parentFields, entry.parentFieldName),
            !.formEnumCursor = Len(ParseItems(Get(values, entry.parentFieldName))),
            !.formFilteredIndices = filterFormFields(entry.parentFields, <<>>),
            !.formListCursor = defaultFormCursor(entry.parentFields,
                                  filterFormFields(entry.parentFields, <<>>), values)]

\* the parent form restored from a stack entry with the given values, back in
\* the array editor of the field that was descended from
RestoreParent(s, entry, values) ==
  [s EXCEPT !.formStack = SubSeq(s.formStack, 1, Len(s.formStack) - 1),
            !.fields = entry.parentFields,
            !.formValues = values,
            !.formEditing = TRUE,
            !.formEditFieldIdx = FieldIndex(entry.parentFields, entry.parentFieldName),
            !.formEnumCursor = Len(ParseItems(Get(values, entry.parentFieldName))),
            !.formEnumSelected = {},
            !.formSearchQuery = <<>>,
            !.formSearchCursorPos = 0,
            !.formFilteredIndices = filterFormFields(entry.parentFields, <<>>),
            !.formListCursor = defaultFormCursor(entry.parentFields,
                                  filterFormFields(entry.parentFields, <<>>), values),
            !.formShowRequired = FALSE,
            !.formShowOptional = FALSE,
            !.formInputBuf = <<>>,
            !.formInputCursorPos = 0]

popFormStack(s) ==
  LET entry == s.formStack[Len(s.formStack)]
      subObj == SubObject(s.fields, s.formValues)
      parentArr == ParseItems(Get(entry.parentValues, entry.parentFieldName))
      newParentValues == Put(entry.parentValues, entry.parentFieldName,
                             Arr(WriteItem(parentArr, entry.editIndex, subObj)))
  IN RestoreParent(s, entry, newParentValues)

\* an Escape that saves the sub-form as Enter on its Add row does
cancelSubForm_Commits(s) == popFormStack(s)

\* Escape in a sub-form palette: the parent restored without committing
cancelSubForm(s) ==
  RestoreParent(s, s.formStack[Len(s.formStack)], s.formStack[Len(s.formStack)].parentValues)

\* String(v) of a JSON value: an object prints as [object Object], an array
\* as its elements joined by commas
ObjectObject == <<"[", "o", "b", "j", "e", "c", "t", " ", "O", "b", "j", "e", "c", "t", "]">>

RECURSIVE StringOf(_)
StringOf(v) ==
  IF "t" \notin DOMAIN v THEN ObjectObject
  ELSE IF v.t = "bool" THEN (IF v.b THEN TrueS ELSE FalseS)
  ELSE IF v.t = "str" THEN v.s
  ELSE IF v.a = <<>> THEN <<>>
  ELSE IF Len(v.a) = 1 THEN StringOf(v.a[1])
  ELSE StringOf(v.a[1]) \o <<",">> \o StringOf(Arr(Tail(v.a)))

\* f.prop.default != null ? String(f.prop.default) : ""
DefaultDraft(prop) == IF prop.default.has THEN Str(StringOf(prop.default.v)) ELSE EmptyStr

\* the draft a sub-form field starts with when an existing item that has a
\* member of that name is opened
Prepopulate(item, name) ==
  IF name \notin DOMAIN item THEN EmptyStr
  ELSE IF item[name].t = "arr" THEN Arr(item[name].a)
  ELSE Str(StringOf(item[name]))

\* the draft of sub-form field f: from the existing item, else the default
SubDraft(item, editingExisting, f) ==
  IF editingExisting /\ f.name \in DOMAIN item THEN Prepopulate(item, f.name)
  ELSE DefaultDraft(f.prop)

\* Enter in the array-of-objects editor: push the parent, open the sub-form
descend(s) ==
  LET field == At(s.fields, s.formEditFieldIdx)
      items == ParseItems(Get(s.formValues, field.name))
      editingExisting == s.formEnumCursor < Len(items)
      subFields == BuildFields(field.prop.items)
      subValues == [n \in {subFields[i].name : i \in 1..Len(subFields)} |->
                      SubDraft(IF editingExisting THEN At(items, s.formEnumCursor) ELSE <<>>,
                               editingExisting,
                               CHOOSE f \in {subFields[i] : i \in 1..Len(subFields)} : f.name = n)]
      subFiltered == filterFormFields(subFields, <<>>)
  IN
  [s EXCEPT !.formStack = Append(s.formStack,
                StackEntry(field.name, s.fields, s.formValues,
                           IF editingExisting THEN s.formEnumCursor ELSE -1)),
            !.fields = subFields,
            !.formValues = subValues,
            !.formEditing = FALSE,
            !.formEditFieldIdx = -1,
            !.formSearchQuery = <<>>,
            !.formSearchCursorPos = 0,
            !.formFilteredIndices = subFiltered,
            !.formListCursor = defaultFormCursor(subFields, subFiltered, subValues),
            !.formShowRequired = FALSE,
            !.formShowOptional = FALSE,
            !.formEnumCursor = 0,
            !.formEnumSelected = {},
            !.formInputBuf = <<>>,
            !.formInputCursorPos = 0]

\* ----------------------------------------------------- handleFormEditInput
\* resetPalette(updatedValues) merged into s
resetPalette(s, values) ==
  [s EXCEPT !.formSearchQuery = <<>>,
            !.formSearchCursorPos = 0,
            !.formFilteredIndices = filterFormFields(s.fields, <<>>),
            !.formListCursor = defaultFormCursor(s.fields,
                                  filterFormFields(s.fields, <<>>), values),
            !.formShowRequired = FALSE,
            !.formShowOptional = FALSE]

\* a confirm that clears the drafts of the other fields
confirmEdit_Wipes(s, val) ==
  resetPalette([s EXCEPT !.formEditing = FALSE, !.formEditFieldIdx = -1,
                         !.formValues = [n \in DOMAIN s.formValues |->
                                           IF n = At(s.fields, s.formEditFieldIdx).name
                                           THEN val ELSE EmptyStr]],
               s.formValues)

\* an editor closed with the draft of its field set to val
confirmEdit(s, val) ==
  resetPalette([s EXCEPT !.formEditing = FALSE, !.formEditFieldIdx = -1,
                         !.formValues = Put(s.formValues,
                                            At(s.fields, s.formEditFieldIdx).name, val)],
               Put(s.formValues, At(s.fields, s.formEditFieldIdx).name, val))

\* an Escape that writes the input buffer to the draft
cancelEdit_Commits(s) ==
  [confirmEdit(s, Str(s.formInputBuf)) EXCEPT !.formInputBuf = <<>>, !.formInputCursorPos = 0]

\* Escape in an editor other than the multi-select: closed without writing
cancelEdit(s) ==
  resetPalette([s EXCEPT !.formEditing = FALSE, !.formEditFieldIdx = -1,
                         !.formInputBuf = <<>>, !.formInputCursorPos = 0],
               s.formValues)

\* cursor - 1, wrapping to total - 1
WrapUp(cursor, total) == IF cursor > 0 THEN cursor - 1 ELSE total - 1

\* a step down that never wraps
WrapDown_NoWrap(cursor, total) == cursor + 1

\* cursor + 1, wrapping to 0
WrapDown(cursor, total) == IF cursor < total - 1 THEN cursor + 1 ELSE 0

RemoveAt(seq, i) == SubSeq(seq, 1, i) \o SubSeq(seq, i + 2, Len(seq))

handleFormEditInput(s, key) ==
  LET field == At(s.fields, s.formEditFieldIdx)
      items == ParseItems(Get(s.formValues, field.name))
      pos == s.formInputCursorPos
      dateFmt == dateFieldFormat(field.prop)
      choices == Choices(field.prop)
      texts == SplitStrings(Get(s.formValues, field.name).s)
      kind == editInputKind(field.prop)
  IN
  IF key.name = "escape"
  THEN (IF escapeConfirms(field.prop)
        THEN St([confirmEdit(s, SelectedDraft(choices, s.formEnumSelected))
                   EXCEPT !.formEnumSelected = {}])
        ELSE St(cancelEdit(s)))
  ELSE IF IsCtrlC(key) THEN Submit(s)
  ELSE IF kind = "arrayObj"
  THEN (IF key.name = "up"
        THEN St([s EXCEPT !.formEnumCursor = WrapUp(s.formEnumCursor, Len(items) + 1)])
        ELSE IF key.name = "down"
        THEN St([s EXCEPT !.formEnumCursor = WrapDown(s.formEnumCursor, Len(items) + 1)])
        ELSE IF key.name = "return" THEN St(descend(s))
        ELSE IF key.name = "backspace" /\ s.formEnumCursor < Len(items)
        THEN St([s EXCEPT !.formValues = Put(s.formValues, field.name,
                                             Arr(RemoveAt(items, s.formEnumCursor))),
                          !.formEnumCursor =
                             IF s.formEnumCursor < Len(items) - 1
                             THEN s.formEnumCursor ELSE Len(items) - 1])
        ELSE St(s))
  ELSE IF kind = "date"
  THEN (IF key.name = "left"
        THEN St([s EXCEPT !.datePartCursor = IF s.datePartCursor - 1 > 0
                                             THEN s.datePartCursor - 1 ELSE 0])
        ELSE IF key.name = "right"
        THEN St([s EXCEPT !.datePartCursor =
                   IF s.datePartCursor + 1 < datePartCount(dateFmt) - 1
                   THEN s.datePartCursor + 1 ELSE datePartCount(dateFmt) - 1])
        ELSE IF key.name = "up"
        THEN St([s EXCEPT !.dateParts = adjustDatePart(s.dateParts, s.datePartCursor,
                                                       1, dateFmt)])
        ELSE IF key.name = "down"
        THEN St([s EXCEPT !.dateParts = adjustDatePart(s.dateParts, s.datePartCursor,
                                                       -1, dateFmt)])
        ELSE IF key.name = "return"
        THEN St(confirmEdit(s, Str(datePartsToString(s.dateParts, dateFmt))))
        ELSE IF key.name = "t"
        THEN St([s EXCEPT !.dateParts = todayParts(dateFmt), !.datePartCursor = 0])
        ELSE IF key.name = "backspace" THEN St(confirmEdit(s, EmptyStr))
        ELSE St(s))
  ELSE IF kind = "arrayEnum"
  THEN (IF key.name = "up"
        THEN St([s EXCEPT !.formEnumCursor = IF s.formEnumCursor <= 0 THEN Len(choices) - 1
                                             ELSE s.formEnumCursor - 1])
        ELSE IF key.name = "down"
        THEN St([s EXCEPT !.formEnumCursor = IF s.formEnumCursor >= Len(choices) - 1 THEN 0
                                             ELSE s.formEnumCursor + 1])
        ELSE IF key.name = " " \/ key.ch = " "
        THEN St([s EXCEPT !.formEnumSelected =
                   IF s.formEnumCursor \in s.formEnumSelected
                   THEN s.formEnumSelected \ {s.formEnumCursor}
                   ELSE s.formEnumSelected \cup {s.formEnumCursor}])
        ELSE IF key.name = "return"
        THEN St(resetPalette(
                  [s EXCEPT !.formEditing = FALSE, !.formEditFieldIdx = -1,
                            !.formValues =
                               Put(s.formValues, field.name,
                                   SelectedDraft(choices,
                                     s.formEnumSelected \cup {s.formEnumCursor})),
                            !.formEnumSelected = {}],
                  s.formValues))
        ELSE St(s))
  ELSE IF kind \in {"enum", "bool"}
  THEN (IF key.name = "up"
        THEN St([s EXCEPT !.formEnumCursor = IF s.formEnumCursor <= 0 THEN Len(choices) - 1
                                             ELSE s.formEnumCursor - 1])
        ELSE IF key.name = "down"
        THEN St([s EXCEPT !.formEnumCursor = IF s.formEnumCursor >= Len(choices) - 1 THEN 0
                                             ELSE s.formEnumCursor + 1])
        ELSE IF key.name = "return"
        THEN St(confirmEdit(s, Str(At(choices, s.formEnumCursor))))
        ELSE St(s))
  ELSE IF kind = "arrayText"
  THEN (IF key.name = "up"
        THEN St([s EXCEPT !.formEnumCursor = WrapUp(s.formEnumCursor, Len(texts) + 1)])
        ELSE IF key.name = "down"
        THEN St([s EXCEPT !.formEnumCursor = WrapDown(s.formEnumCursor, Len(texts) + 1)])
        ELSE IF s.formEnumCursor < Len(texts)
        THEN (IF key.name = "return"
              THEN St([s EXCEPT !.formValues =
                                   Put(s.formValues, field.name,
                                       Str(JoinWith(RemoveAt(texts, s.formEnumCursor),
                                                    CommaSpace))),
                                !.formInputBuf = At(texts, s.formEnumCursor),
                                !.formInputCursorPos = Len(At(texts, s.formEnumCursor)),
                                !.formEnumCursor = Len(texts) - 1])
              ELSE IF key.name = "backspace"
              THEN St([s EXCEPT !.formValues =
                                   Put(s.formValues, field.name,
                                       Str(JoinWith(RemoveAt(texts, s.formEnumCursor),
                                                    CommaSpace))),
                                !.formEnumCursor =
                                   IF s.formEnumCursor < Len(texts) - 1
                                   THEN s.formEnumCursor ELSE Len(texts) - 1])
              ELSE St(s))
        ELSE IF key.name = "return"
        THEN (IF Trim(s.formInputBuf) # <<>>
              THEN St([s EXCEPT !.formValues =
                                   Put(s.formValues, field.name,
                                       Str(JoinWith(Append(texts, Trim(s.formInputBuf)),
                                                    CommaSpace))),
                                !.formInputBuf = <<>>,
                                !.formInputCursorPos = 0,
                                !.formEnumCursor = Len(texts) + 1])
              ELSE St(confirmEdit(s, Str(JoinWith(texts, CommaSpace)))))
        ELSE IF key.name = "backspace"
        THEN (IF s.formInputBuf # <<>>
              THEN St([s EXCEPT !.formInputBuf = SubSeq(s.formInputBuf, 1,
                                                        Len(s.formInputBuf) - 1),
                                !.formInputCursorPos = Len(s.formInputBuf) - 1])
              ELSE St(s))
        ELSE IF ~key.ctrl /\ key.ch # ""
        THEN St([s EXCEPT !.formInputBuf = s.formInputBuf \o <<key.ch>>,
                          !.formInputCursorPos = Len(s.formInputBuf) + 1])
        ELSE St(s))
  ELSE (IF key.name = "return"
        THEN St([confirmEdit(s, Str(s.formInputBuf)) EXCEPT !.formInputCursorPos = 0])
        ELSE IF key.name = "left"
        THEN St([s EXCEPT !.formInputCursorPos = IF pos - 1 > 0 THEN pos - 1 ELSE 0])
        ELSE IF key.name = "right"
        THEN St([s EXCEPT !.formInputCursorPos = IF pos + 1 < Len(s.formInputBuf)
                                                 THEN pos + 1 ELSE Len(s.formInputBuf)])
        ELSE IF key.name = "backspace"
        THEN (IF pos > 0
              THEN St([s EXCEPT !.formInputBuf = DeleteBefore(s.formInputBuf, pos),
                                !.formInputCursorPos = pos - 1])
              ELSE St(s))
        ELSE IF ~key.ctrl /\ key.ch # ""
        THEN St([s EXCEPT !.formInputBuf = InsertAt(s.formInputBuf, pos, <<key.ch>>),
                          !.formInputCursorPos = pos + 1])
        ELSE St(s))

\* -------------------------------------------------- top-level form handlers
\* a commandListReset that lands in the results view
commandListReset_ToResults(s) == [s EXCEPT !.view = "results", !.selectedTool = "null"]

commandListReset(s) ==
  [s EXCEPT !.view = "commands", !.selectedTool = "null",
            !.searchQuery = <<>>, !.searchCursorPos = 0,
            !.filteredItems = buildCommandList,
            !.listCursor = FirstSelectable(buildCommandList),
            !.listScrollTop = 0]

\* 0-based indices of the optional fields, in order
OptionalFields(fields) ==
  [k \in 1..Len(SelectIdx(fields, {i \in 1..Len(fields) : ~fields[i].required}, 1)) |->
     SelectIdx(fields, {i \in 1..Len(fields) : ~fields[i].required}, 1)[k] - 1]

\* index of the last field with a non-blank draft, -1 when there is none
LastSetField(fields, values) ==
  IF {i \in 1..Len(fields) : TrimTruthy(Get(values, fields[i].name))} = {} THEN -1
  ELSE (CHOOSE i \in {j \in 1..Len(fields) : TrimTruthy(Get(values, fields[j].name))} :
          \A j \in {k \in 1..Len(fields) : TrimTruthy(Get(values, fields[k].name))} : j <= i) - 1

handleCommandBuilderReadyInput(s, key) ==
  IF key.name = "escape" \/ IsCtrlC(key) THEN St(commandListReset(s))
  ELSE IF key.name = "return"
  THEN (IF missingRequiredFields(s.fields, s.formValues) = {} THEN Submit(s)
        ELSE IF FirstBlankRequired(s.fields, s.formValues) >= 0
        THEN St(startEditingField(s, FirstBlankRequired(s.fields, s.formValues)))
        ELSE St(s))
  ELSE IF key.name = "tab"
  THEN (IF OptionalFields(s.fields) # <<>>
        THEN St([s EXCEPT !.formShowOptional = TRUE, !.formListCursor = 0])
        ELSE St(s))
  ELSE IF key.name = "backspace"
  THEN (IF LastSetField(s.fields, s.formValues) >= 0
        THEN St(startEditingField(s, LastSetField(s.fields, s.formValues)))
        ELSE St(s))
  ELSE St(s)

handleOptionalPickerInput(s, key) ==
  LET optionalFields == OptionalFields(s.fields) IN
  IF key.name = "escape" \/ IsCtrlC(key) THEN St([s EXCEPT !.formShowOptional = FALSE])
  ELSE IF key.name = "up"
  THEN St([s EXCEPT !.formListCursor = WrapUp(s.formListCursor, Len(optionalFields))])
  ELSE IF key.name = "down"
  THEN St([s EXCEPT !.formListCursor = WrapDown(s.formListCursor, Len(optionalFields))])
  ELSE IF key.name = "return" /\ s.formListCursor < Len(optionalFields)
  THEN St(startEditingField([s EXCEPT !.formShowOptional = FALSE],
                            At(optionalFields, s.formListCursor)))
  ELSE St(s)

\* --------------------------------------------------- handleFormPaletteInput
\* a list position that the arrow keys stop at (collapsed optional fields are skipped)
isNavigable(s, listPos) ==
  /\ listPos >= 0
  /\ listPos < Len(s.formFilteredIndices)
  /\ \/ At(s.formFilteredIndices, listPos) = -1
     \/ ~( /\ ~s.formShowOptional
           /\ s.formSearchQuery = <<>>
           /\ At(s.formFilteredIndices, listPos) >= 0
           /\ At(s.formFilteredIndices, listPos) < Len(s.fields)
           /\ ~At(s.fields, At(s.formFilteredIndices, listPos)).required )

RECURSIVE CycleUp(_, _, _)
\* for (i = 0; i < filtered.length; i++) { next = next > 0 ? next - 1 : last; if navigable break }
CycleUp(s, next, i) ==
  IF i >= Len(s.formFilteredIndices) THEN next
  ELSE IF isNavigable(s, WrapUp(next, Len(s.formFilteredIndices)))
  THEN WrapUp(next, Len(s.formFilteredIndices))
  ELSE CycleUp(s, WrapUp(next, Len(s.formFilteredIndices)), i + 1)

RECURSIVE CycleDown(_, _, _)
CycleDown(s, next, i) ==
  IF i >= Len(s.formFilteredIndices) THEN next
  ELSE IF isNavigable(s, WrapDown(next, Len(s.formFilteredIndices)))
  THEN WrapDown(next, Len(s.formFilteredIndices))
  ELSE CycleDown(s, WrapDown(next, Len(s.formFilteredIndices)), i + 1)

\* list positions of the required fields that are still unset
UnfilledRequired(s) ==
  {p \in 1..Len(s.formFilteredIndices) :
     /\ s.formFilteredIndices[p] >= 0
     /\ s.formFilteredIndices[p] < Len(s.fields)
     /\ IsMissing(At(s.fields, s.formFilteredIndices[p]), s.formValues)}

\* the optional-fields toggle applies
OptionalExists(s) ==
  \E p \in 1..Len(s.formFilteredIndices) :
     /\ s.formFilteredIndices[p] >= 0
     /\ s.formFilteredIndices[p] < Len(s.fields)
     /\ ~At(s.fields, s.formFilteredIndices[p]).required

\* the form search query replaced: the fields are filtered again, cursor to the top
WithFormQuery(s, newQuery, newPos) ==
  [s EXCEPT !.formSearchQuery = newQuery, !.formSearchCursorPos = newPos,
            !.formFilteredIndices = filterFormFields(s.fields, newQuery),
            !.formListCursor = 0]

\* Enter in the palette (lines 1820-1837)
PaletteEnter(s) ==
  LET highlightedIdx == IF s.formListCursor < Len(s.formFilteredIndices) /\ s.formListCursor >= 0
                        THEN At(s.formFilteredIndices, s.formListCursor) ELSE -2
  IN
  IF highlightedIdx = -1
  THEN (IF missingRequiredFields(s.fields, s.formValues) = {}
        THEN (IF Len(s.formStack) > 0 THEN St(popFormStack(s)) ELSE Submit(s))
        ELSE St([s EXCEPT !.formShowRequired = TRUE]))
  ELSE IF highlightedIdx >= 0 /\ highlightedIdx < Len(s.fields)
  THEN St(startEditingField(s, highlightedIdx))
  ELSE St(s)

handleFormPaletteInput(s, key) ==
  LET filtered == s.formFilteredIndices
      curIdx == IF s.formListCursor < Len(filtered) /\ s.formListCursor >= 0
                THEN At(filtered, s.formListCursor) ELSE -2
  IN
  IF IsCtrlC(key) THEN Submit(s)
  ELSE IF key.name = "escape"
  THEN (IF s.formSearchQuery # <<>>
        THEN St([WithFormQuery(s, <<>>, 0) EXCEPT
                   !.formListCursor = defaultFormCursor(s.fields,
                                         filterFormFields(s.fields, <<>>), s.formValues)])
        ELSE IF Len(s.formStack) > 0 THEN St(cancelSubForm(s))
        ELSE St(commandListReset(s)))
  ELSE IF key.name = "tab"
  THEN (IF UnfilledRequired(s) # {}
        THEN St([s EXCEPT !.formListCursor =
                   IF \E p \in UnfilledRequired(s) : p - 1 > s.formListCursor
                   THEN FirstIn({p \in UnfilledRequired(s) : p - 1 > s.formListCursor})
                   ELSE FirstIn(UnfilledRequired(s))])
        ELSE IF executeIndex(filtered) >= 0
        THEN St([s EXCEPT !.formListCursor = executeIndex(filtered)])
        ELSE St(s))
  ELSE IF key.ch = "o" /\ ~key.ctrl /\ s.formSearchQuery = <<>> /\ OptionalExists(s)
  THEN (IF s.formShowOptional /\ curIdx >= 0 /\ curIdx < Len(s.fields)
           /\ ~At(s.fields, curIdx).required
        THEN St([s EXCEPT !.formShowOptional = FALSE,
                          !.formListCursor = IF executeIndex(filtered) >= 0
                                             THEN executeIndex(filtered) ELSE 0])
        ELSE St([s EXCEPT !.formShowOptional = ~s.formShowOptional]))
  ELSE IF key.name = "left"
  THEN St([s EXCEPT !.formSearchCursorPos = IF s.formSearchCursorPos - 1 > 0
                                            THEN s.formSearchCursorPos - 1 ELSE 0])
  ELSE IF key.name = "right"
  THEN St([s EXCEPT !.formSearchCursorPos =
             IF s.formSearchCursorPos + 1 < Len(s.formSearchQuery)
             THEN s.formSearchCursorPos + 1 ELSE Len(s.formSearchQuery)])
  ELSE IF key.name = "up" THEN St([s EXCEPT !.formListCursor = CycleUp(s, s.formListCursor, 0)])
  ELSE IF key.name = "down"
  THEN St([s EXCEPT !.formListCursor = CycleDown(s, s.formListCursor, 0)])
  ELSE IF key.name = "return" THEN PaletteEnter(s)
  ELSE IF key.name = "backspace"
  THEN (IF s.formSearchCursorPos > 0
        THEN St(WithFormQuery(s, DeleteBefore(s.formSearchQuery, s.formSearchCursorPos),
                              s.formSearchCursorPos - 1))
        ELSE St(s))
  ELSE IF ~key.ctrl /\ key.ch # ""
  THEN St(WithFormQuery(s, InsertAt(s.formSearchQuery, s.formSearchCursorPos, <<key.ch>>),
                        s.formSearchCursorPos + 1))
  ELSE St(s)

\* ------------------------------------------------------------ dispatchers
handleFormInput(s, key) ==
  IF Len(s.formStack) > 0
  THEN (IF s.formEditing THEN handleFormEditInput(s, key) ELSE handleFormPaletteInput(s, key))
  ELSE IF s.formEditing
  THEN (LET result == handleFormEditInput(s, key) IN
        IF result.tag = "submit" THEN result
        ELSE IF ~result.st.formEditing /\ key.name # "escape"
                /\ FirstBlankRequired(result.st.fields, result.st.formValues) >= 0
        THEN St(startEditingField(result.st,
                   FirstBlankRequired(result.st.fields, result.st.formValues)))
        ELSE result)
  ELSE IF s.formShowOptional THEN handleOptionalPickerInput(s, key)
  ELSE handleCommandBuilderReadyInput(s, key)

\* a goBack that always returns to the command list
goBack_ToCommands(s) == commandListReset([s EXCEPT !.result = <<>>, !.error = ""])

\* Escape or Enter in the results view
goBack(s) ==
  LET isEmpty == s.error = "" /\ s.result # EMPTY_LIST_SENTINEL /\ Trim(s.result) = <<>>
      hasParams == ~isEmpty /\ s.selectedTool # "null"
                   /\ Len(Schema(ToolNamed(s.selectedTool).schema).properties) > 0
      cleared == [s EXCEPT !.result = <<>>, !.error = ""]
  IN
  IF hasParams
  THEN [resetPalette(cleared, s.formValues) EXCEPT !.view = "form", !.formEditing = FALSE,
                                                    !.formEditFieldIdx = -1]
  ELSE commandListReset(cleared)

handleResultsInput(state0, key) ==
  LET s == CancelQuitConfirm(state0) IN
  IF IsCtrlC(key) \/ (key.name = "q" /\ ~key.ctrl)
  THEN (IF state0.quitConfirm THEN Exit(state0) ELSE St([state0 EXCEPT !.quitConfirm = TRUE]))
  ELSE IF key.name = "return" \/ key.name = "escape" THEN St(goBack(s))
  ELSE St(s)

handleInput(s, key) ==
  CASE s.view = "commands" -> handleCommandListInput(s, key)
    [] s.view = "form" -> handleFormInput(s, key)
    [] s.view = "results" -> handleResultsInput(s, key)
    [] OTHER -> St(s)

\* ------------------------------------------------------------ executeTool
\* what ensureValidToken can produce: a token, or one of its errors (not
\* logged in, credentials missing, refresh refused), each with a message
TokenOutcomes == {"token", "noToken"}

\* what callTool can produce: text or structured data, no text, a text of
\* white space, an empty collection, an error with a message (isError, or a
\* thrown Error), a thrown value whose message is empty
ToolOutcomes == {"data", "blank", "spaces", "emptyList", "error", "errorNoMessage"}

\* an executeTool that goes straight to callTool
Call_NoToken(st) == [st |-> st, pc |-> "call", tokenCalls |-> 0, toolCalls |-> 1]

\* one executeTool call that has not returned: the state it was called with,
\* the await it is suspended at, the calls it has made so far
Call(st) == [st |-> st, pc |-> "token", tokenCalls |-> 1, toolCalls |-> 0]

\* Number(val) for a draft of digits and spaces: blank text is 0, digits are
\* their value, anything else is NaN (-1 here)
NumberOfDraft(str) ==
  IF Trim(str) = <<>> THEN 0
  ELSE IF AllDigits(Trim(str)) THEN NumberOf(Trim(str)) ELSE -1

\* the drafts, other than arrays, that JSON.parse accepts
ParsesAsJsonScalar(str) ==
  Trim(str) # <<>> /\ (AllDigits(Trim(str)) \/ Trim(str) \in {TrueS, FalseS})

\* val.split(",").map((s) => s.trim())
SplitTrimmed(str) == [i \in 1..Len(SplitComma(str)) |-> Str(Trim(SplitComma(str)[i]))]

\* the argument formValuesToArgs builds from one non-empty draft; a number is
\* kept as its decimal text, which is what String(v) makes of it
ArgOf(prop, val) ==
  IF prop.type \in {"integer", "number"} THEN Str(DecimalOf(NumberOfDraft(val.s)))
  ELSE IF prop.type = "boolean" THEN Bool(val = Str(TrueS))
  ELSE IF prop.type = "array"
  THEN (IF val.t = "arr" THEN Arr(val.a)
        ELSE IF ParsesAsJsonScalar(val.s) THEN Arr(SplitTrimmed(val.s))
        ELSE Arr(SplitItems(val.s)))
  ELSE val

formValuesToArgs(fields, values) ==
  LET set == { j \in 1..Len(fields) :
                 /\ Truthy(Get(values, fields[j].name))
                 /\ (fields[j].prop.type \in {"integer", "number"}
                       => NumberOfDraft(Get(values, fields[j].name).s) # -1) }
  IN [n \in { fields[j].name : j \in set } |->
        ArgOf((CHOOSE f \in { fields[j] : j \in set } : f.name = n).prop, Get(values, n))]

\* the names of the arguments formValuesToArgs builds: the fields with a
\* non-empty draft (no field of the catalog is a number)
ArgNames(fields, values) ==
  { fields[i].name : i \in { j \in 1..Len(fields) : Get(values, fields[j].name) # EmptyStr } }

\* an executeTool that returns the drafts blank
executeTool_BlankDrafts(s, outcome) ==
  [s EXCEPT !.view = "results", !.error = "error", !.result = <<>>,
            !.formValues = [n \in DOMAIN s.formValues |-> EmptyStr]]

\* an executeTool whose catch block returns the state it was given
executeTool_StaysLoading(s, outcome) ==
  IF outcome \in {"error", "noToken", "errorNoMessage"} THEN s
  ELSE [s EXCEPT !.view = "results", !.error = "", !.result = << "o", "k" >>]

\* the state executeTool returns for the state it was called with
executeTool(s, outcome) ==
  IF outcome \in {"error", "noToken"}
  THEN [s EXCEPT !.view = "results", !.error = "error", !.result = <<>>]
  ELSE IF outcome = "errorNoMessage"
  THEN [s EXCEPT !.view = "results", !.error = "", !.result = <<>>]
  ELSE [s EXCEPT !.view = "results", !.error = "",
                 !.result = CASE outcome = "data" -> << "o", "k" >>
                              [] outcome = "blank" -> <<>>
                              [] outcome = "spaces" -> << " " >>
                              [] outcome = "emptyList" -> EMPTY_LIST_SENTINEL]

\* the screen renderResults draws for a state of the results view
ResultsMode(s) ==
  LET isError == s.error # ""
      isEmptyList == ~isError /\ s.result = EMPTY_LIST_SENTINEL
      isEmpty == ~isError /\ ~isEmptyList /\ Trim(s.result) = <<>>
  IN CASE isError -> "error"
       [] isEmptyList -> "noResults"
       [] isEmpty -> "success"
       [] OTHER -> "text"

\* ----------------------------------------------------------------- runApp
\* a resetQuitTimer that forgets clearTimeout
ClearTimer_Forgotten(handle, pending) == pending

\* if (quitTimer) clearTimeout(quitTimer)
ClearTimer(handle, pending) == IF handle # 0 THEN pending \ {handle} ELSE pending

\* the id setTimeout returns: never one handed out before and still in use,
\* as a pending timeout or as the handle just cleared
FreshTimer(pending, handle) ==
  CHOOSE i \in 1..(Cardinality(pending) + 2) :
     /\ i \notin pending \cup {handle}
     /\ \A j \in 1..(i - 1) : j \in pending \cup {handle}

\* resetQuitTimer(), run with st as the current state
resetQuitTimer(st) ==
  /\ timers' = IF st.quitConfirm
               THEN ClearTimer(quitTimer, timers)
                      \cup {FreshTimer(ClearTimer(quitTimer, timers), quitTimer)}
               ELSE ClearTimer(quitTimer, timers)
  /\ quitTimer' = IF st.quitConfirm
                  THEN FreshTimer(ClearTimer(quitTimer, timers), quitTimer)
                  ELSE 0

\* cleanup(), and startTui's finally block, which runs as soon as runApp's
\* promise resolves, before any other callback
cleanup ==
  /\ spinnerOn' = FALSE
  /\ timers' = ClearTimer(quitTimer, timers)
  /\ rawMode' = FALSE
  /\ listening' = FALSE
  /\ tui' = "exited"
  /\ fullScreen' = FALSE
  /\ UNCHANGED <<state, quitTimer, inFlight, now, probe>>

\* a runApp that hands Ctrl+C to the view handlers like any other key
InterceptsCtrlC_Never(key) == FALSE

\* onData's first test: Ctrl+C ends the session before any handler sees it
InterceptsCtrlC(key) == IsCtrlC(key)

\* a runApp without the loading test
DropsKey_Never(s, key) == FALSE

\* onData's second test: a key is dropped while a tool call is pending
DropsKey(s, key) == s.view = "loading"

\* the model's bounds on typed text and on array drafts
\* number of objects an array-of-objects value holds, nested ones included
RECURSIVE ArrWeight(_), ObjWeightOver(_, _)
ArrWeight(a) ==
  IF a = <<>> THEN 0
  ELSE (IF "t" \in DOMAIN Head(a) THEN 1 ELSE ObjWeightOver(Head(a), DOMAIN Head(a)))
       + ArrWeight(Tail(a))

ObjWeightOver(o, names) ==
  IF names = {} THEN 1
  ELSE LET n == CHOOSE x \in names : TRUE
       IN ArrWeight(o[n].a) + ObjWeightOver(o, names \ {n})

\* objects held by the drafts of one form level
ValuesWeight(values) == ObjWeightOver(values, DOMAIN values) - 1

\* objects held by the parent forms saved on the stack
RECURSIVE StackWeight(_)
StackWeight(stack) ==
  IF stack = <<>> THEN 0
  ELSE ValuesWeight(Head(stack).parentValues) + StackWeight(Tail(stack))

WithinBounds(st) ==
  /\ Len(st.searchQuery) <= MaxQuery
  /\ Len(st.formSearchQuery) <= MaxQuery
  /\ Len(st.formInputBuf) <= MaxBuf
  /\ ValuesWeight(st.formValues) + StackWeight(st.formStack) <= MaxItems
  /\ st.selectedTool \notin KindTools

\* the bounds of the sessions that build longer arrays: no search text
WithinItemBounds(st) ==
  /\ st.searchQuery = <<>>
  /\ st.formSearchQuery = <<>>
  /\ Len(st.formInputBuf) <= MaxBuf
  /\ ValuesWeight(st.formValues) + StackWeight(st.formStack) <= MaxDeepItems
  /\ st.selectedTool \notin KindTools

\* the clock readings of a session, in the order they occur
Todays == << <<2024, 1, 31, 23, 59>>, <<2100, 12, 31, 0, 0>> >>

RECURSIVE DatesWithin(_)
\* the date parts at most k adjustments away from a clock reading
DatesWithin(k) ==
  IF k = 0 THEN { SubSeq(Todays[i], 1, 3) : i \in 1..Len(Todays) }
  ELSE DatesWithin(k - 1)
       \cup { adjustDatePart(p, c, d, "date") : p \in DatesWithin(k - 1), c \in 0..2, d \in {1, -1} }

DateWindow == DatesWithin(MaxDateSteps)

\* the bounds of the sessions on the tools of EditorTools: no search text
WithinKindBounds(st) ==
  /\ st.searchQuery = <<>>
  /\ st.formSearchQuery = <<>>
  /\ Len(st.formInputBuf) <= MaxBuf
  /\ st.selectedTool \in EditorTools \cup {"null"}
  /\ Len(SplitStrings(Get(st.formValues, "tags").s)) <= MaxTags
  /\ ValuesWeight(st.formValues) + StackWeight(st.formStack) <= MaxItems
  /\ st.dateParts = <<>> \/ st.dateParts \in DateWindow

\* state = st; paint; state = await executeTool(state): the call starts here
startTool(st) ==
  /\ state' = st
  /\ inFlight' = Append(inFlight, Call(st))
  /\ UNCHANGED <<quitTimer, timers, spinnerOn, listening, rawMode, fullScreen, tui, now, probe>>

\* one "data" event on stdin, result being what handleInput returns for it
onDataResult(key, result) ==
  /\ listening
  /\ tui = "running"
  /\ IF InterceptsCtrlC(key) THEN cleanup
     ELSE IF DropsKey(state, key) THEN UNCHANGED vars
     ELSE IF result.tag = "exit" THEN cleanup
     ELSE IF result.tag = "submit"
     THEN startTool([state EXCEPT !.view = "loading", !.spinnerFrame = 0])
     ELSE IF result.st.view = "loading"
     THEN startTool([result.st EXCEPT !.spinnerFrame = 0])
     ELSE /\ state' = result.st
          /\ resetQuitTimer(result.st)
          /\ UNCHANGED <<spinnerOn, listening, rawMode, fullScreen, tui, inFlight, now, probe>>

onData(key) == onDataResult(key, handleInput(state, key))

\* a "data" event whose handling stays within the bounds
OnData(key) ==
  \E result \in {handleInput(state, key)} :
    /\ InterceptsCtrlC(key) \/ DropsKey(state, key) \/ WithinBounds(result.st)
    /\ onDataResult(key, result)

\* a "data" event of a session in which nothing is typed into a search line
\* and the array drafts may grow to MaxDeepItems objects
OnDataItems(key) ==
  \E result \in {handleInput(state, key)} :
    /\ InterceptsCtrlC(key) \/ DropsKey(state, key) \/ WithinItemBounds(result.st)
    /\ onDataResult(key, result)

OnDataKinds(key) ==
  \E result \in {handleInput(state, key)} :
    /\ InterceptsCtrlC(key) \/ DropsKey(state, key) \/ WithinKindBounds(result.st)
    /\ onDataResult(key, result)

\* the local time moves on to the next reading
ClockTick ==
  /\ tui = "running"
  /\ \E i \in 1..(Len(Todays) - 1) : now = Todays[i] /\ now' = Todays[i + 1]
  /\ UNCHANGED <<state, quitTimer, timers, spinnerOn, listening, rawMode, fullScreen, tui,
                 inFlight, probe>>

\* the ensureValidToken of a pending executeTool call settles: with a token
\* callTool is called, with an error executeTool returns through its catch
TokenReturns(i, outcome) ==
  /\ tui # "killed"
  /\ i \in 1..Len(inFlight)
  /\ inFlight[i].pc = "token"
  /\ IF outcome = "token"
     THEN /\ inFlight' = [inFlight EXCEPT ![i].pc = "call",
                                          ![i].toolCalls = inFlight[i].toolCalls + 1]
          /\ UNCHANGED <<state, quitTimer, timers>>
     ELSE /\ state' = executeTool(inFlight[i].st, outcome)
          /\ inFlight' = RemoveAt(inFlight, i - 1)
          /\ resetQuitTimer(executeTool(inFlight[i].st, outcome))
  /\ UNCHANGED <<spinnerOn, listening, rawMode, fullScreen, tui, now, probe>>

\* the callTool of a pending executeTool call settles: executeTool returns and
\* onData resumes after its await
ToolReturns(i, outcome) ==
  /\ tui # "killed"
  /\ i \in 1..Len(inFlight)
  /\ inFlight[i].pc = "call"
  /\ state' = executeTool(inFlight[i].st, outcome)
  /\ inFlight' = RemoveAt(inFlight, i - 1)
  /\ resetQuitTimer(executeTool(inFlight[i].st, outcome))
  /\ UNCHANGED <<spinnerOn, listening, rawMode, fullScreen, tui, now, probe>>

\* a tick that does not test the view
spinnerTick_AnyView(s) == [s EXCEPT !.spinnerFrame = s.spinnerFrame + 1]

\* the body of the interval callback, on the state it finds
spinnerTick(s) ==
  IF s.view = "loading" THEN [s EXCEPT !.spinnerFrame = s.spinnerFrame + 1] ELSE s

\* the 80 ms interval
SpinnerTick ==
  /\ spinnerOn
  /\ tui # "killed"
  /\ state.spinnerFrame < MaxSpinner
  /\ state' = spinnerTick(state)
  /\ UNCHANGED <<quitTimer, timers, spinnerOn, listening, rawMode, fullScreen, tui, inFlight, now, probe>>

\* the 2 s timeout t expires
QuitTimerFires(t) ==
  /\ t \in timers
  /\ tui # "killed"
  /\ timers' = timers \ {t}
  /\ quitTimer' = 0
  /\ state' = [state EXCEPT !.quitConfirm = FALSE]
  /\ UNCHANGED <<spinnerOn, listening, rawMode, fullScreen, tui, inFlight, now, probe>>

\* stdout "resize": a repaint of the current state; the listener is never
\* removed, so it also runs after cleanup while a call keeps the process alive
Resize ==
  /\ tui # "killed"
  /\ UNCHANGED vars

\* SIGTERM or SIGHUP: no handler is installed, the process ends at once.  Its
\* memory is gone (AppState, timers and pending calls take their initial
\* values); the terminal keeps the modes the process had set.
TerminationSignal ==
  /\ tui = "running"
  /\ tui' = "killed"
  /\ state' = InitialState
  /\ quitTimer' = 0
  /\ timers' = {}
  /\ inFlight' = <<>>
  /\ spinnerOn' = FALSE
  /\ listening' = FALSE
  /\ UNCHANGED <<rawMode, fullScreen, now, probe>>

InitApp ==
  /\ state = InitialState
  /\ quitTimer = 0
  /\ timers = {}
  /\ spinnerOn = TRUE
  /\ listening = TRUE
  /\ rawMode = TRUE
  /\ fullScreen = TRUE
  /\ tui = "running"
  /\ inFlight = <<>>
  /\ now = Todays[1]

Init ==
  /\ InitApp
  /\ probe = NoProbe

Next ==
  \/ \E key \in Keys : OnData(key)
  \/ \E i \in 1..Len(inFlight), outcome \in TokenOutcomes : TokenReturns(i, outcome)
  \/ \E i \in 1..Len(inFlight), outcome \in ToolOutcomes : ToolReturns(i, outcome)
  \/ SpinnerTick
  \/ \E t \in timers : QuitTimerFires(t)
  \/ Resize
  \/ TerminationSignal

Spec == Init /\ [][Next]_vars

\* the program with calls that settle: every pending ensureValidToken and
\* every pending callTool eventually resolves or rejects
CallsSettle ==
  /\ WF_vars(\E i \in 1..Len(inFlight), outcome \in TokenOutcomes : TokenReturns(i, outcome))
  /\ WF_vars(\E i \in 1..Len(inFlight), outcome \in ToolOutcomes : ToolReturns(i, outcome))

SpecLive == Spec /\ CallsSettle

\* the sessions without search text, with longer arrays
NextItems ==
  \/ \E key \in Keys : OnDataItems(key)
  \/ \E i \in 1..Len(inFlight), outcome \in TokenOutcomes : TokenReturns(i, outcome)
  \/ \E i \in 1..Len(inFlight), outcome \in ToolOutcomes : ToolReturns(i, outcome)
  \/ SpinnerTick
  \/ \E t \in timers : QuitTimerFires(t)
  \/ Resize
  \/ TerminationSignal

SpecItems == Init /\ [][NextItems]_vars

\* the sessions on the tools of EditorTools
NextKinds ==
  \/ \E key \in KindKeys : OnDataKinds(key)
  \/ \E i \in 1..Len(inFlight), outcome \in TokenOutcomes : TokenReturns(i, outcome)
  \/ \E i \in 1..Len(inFlight), outcome \in ToolOutcomes : ToolReturns(i, outcome)
  \/ SpinnerTick
  \/ \E t \in timers : QuitTimerFires(t)
  \/ Resize
  \/ TerminationSignal
  \/ ClockTick

SpecKinds == Init /\ [][NextKinds]_vars

\* ------------------------------------- the command list on small terminals

\* terminal heights: too small for the box, a list of one to three rows, a
\* list that shows everything
TermRows == {1, 8, 9, 10, 12, 24}

LogoLengths == {0, 2}

ListKeys ==
  { Key("up", FALSE, ""), Key("down", FALSE, ""),
    Key("pageup", FALSE, ""), Key("pagedown", FALSE, ""),
    Key("backspace", FALSE, ""), Key("paste", FALSE, "x") }
  \cup { Key(c, FALSE, c) : c \in Chars }

InitList ==
  /\ InitApp
  /\ \E rows \in TermRows, logo \in LogoLengths :
       probe = [op |-> "terminal", rows |-> rows, logo |-> logo]

OnDataList(key) ==
  \E result \in {handleInput(state, key)} :
    /\ WithinBounds(result.st)
    /\ onDataResult(key, result)

NextList ==
  \/ \E key \in ListKeys : OnDataList(key)
  \/ \E t \in timers : QuitTimerFires(t)

SpecList == InitList /\ [][NextList]_vars

\* ------------------------------------------------ every shape of property
\* The resolved properties a schema can give a field: every combination of
\* type, format, enum, items.enum and items.properties.  The items are objects
\* with a required boolean, or objects with an optional text that has a
\* schema default.
ShapeTypes == {"string", "boolean", "array"}
ShapeFormats == {"none", "date", "date-time"}
Shapes ==
  { [type |-> ty, items |-> it, default |-> NoDefault,
     enum |-> en, itemsEnum |-> ie, format |-> fm] :
      ty \in ShapeTypes, it \in {"none", "sub", "entry"}, en \in {<<>>, Categories},
      ie \in {<<>>, Categories}, fm \in ShapeFormats }

\* runApp with the form already opened on a tool whose only parameter, tags,
\* has one of the shapes and is required or optional
InitShapes ==
  /\ quitTimer = 0
  /\ timers = {}
  /\ spinnerOn = TRUE
  /\ listening = TRUE
  /\ rawMode = TRUE
  /\ fullScreen = TRUE
  /\ tui = "running"
  /\ inFlight = <<>>
  /\ now = Todays[1]
  /\ probe = [op |-> "shape"]
  /\ \E prop \in Shapes, required \in BOOLEAN :
       state = OpenForm(InitialState, "reader_tags",
                        << [name |-> "tags", prop |-> prop, required |-> required] >>)

\* a "data" event of a session that stays in the form
OnDataShapes(key) ==
  \E result \in {handleInput(state, key)} :
    /\ \/ InterceptsCtrlC(key)
       \/ result.tag = "state" /\ result.st.view = "form" /\ WithinKindBounds(result.st)
    /\ onDataResult(key, result)

\* the keys of KindKeys and o, which unfolds the optional fields of a palette
ShapeKeys == KindKeys \cup {Key("o", FALSE, "o")}

NextShapes == \E key \in ShapeKeys : OnDataShapes(key)

SpecShapes == InitShapes /\ [][NextShapes]_vars

\* the indices of filteredItems that renderCommandList draws and that are
\* left on the screen by renderLayout (contentHeight lines of content) and
\* paint (rows lines)
DrawnItems(s) ==
  LET contentHeight == IF screenRows - 4 > 1 THEN screenRows - 4 ELSE 1
      logoUsed == LogoLength + 3
      n == Len(s.filteredItems)
      hiddenBelow == IF n - (s.listScrollTop + listHeight) > 0
                     THEN n - (s.listScrollTop + listHeight) ELSE 0
      visibleSlots == IF hiddenBelow > 0 THEN listHeight - 1 ELSE listHeight
  IN { i \in 0..(n - 1) :
         /\ i >= s.listScrollTop
         /\ i < s.listScrollTop + visibleSlots
         /\ logoUsed + (i - s.listScrollTop) < contentHeight
         /\ 2 + logoUsed + (i - s.listScrollTop) < screenRows }

\* ------------------------------------------------------------ tui/term.ts
\* A terminal string is a sequence of characters; Esc is the character \x1b.
Esc == "ESC"

RECURSIVE SgrBodyRun(_)
\* the length of the longest prefix of s matching [0-9;]*
SgrBodyRun(s) ==
  IF s # <<>> /\ (IsDigit(Head(s)) \/ Head(s) = ";") THEN 1 + SgrBodyRun(Tail(s)) ELSE 0

\* the length of the match of \x1b\[[0-9;]*m at the head of s, 0 without one
SgrLen(s) ==
  IF Len(s) >= 3 /\ s[1] = Esc /\ s[2] = "["
  THEN LET k == SgrBodyRun(SubSeq(s, 3, Len(s)))
       IN IF 3 + k <= Len(s) /\ s[3 + k] = "m" THEN 3 + k ELSE 0
  ELSE 0

RECURSIVE stripAnsi(_)
\* s.replace(/\x1b\[[0-9;]*m/g, "")
stripAnsi(s) ==
  IF s = <<>> THEN <<>>
  ELSE IF SgrLen(s) > 0 THEN stripAnsi(SubSeq(s, SgrLen(s) + 1, Len(s)))
  ELSE <<Head(s)>> \o stripAnsi(Tail(s))

RECURSIVE IndexOfM(_, _)
\* s.indexOf("m", i), 0-based, -1 without one
IndexOfM(s, i) ==
  IF i >= Len(s) THEN -1
  ELSE IF At(s, i) = "m" THEN i
  ELSE IndexOfM(s, i + 1)

RECURSIVE TruncateAt(_, _, _, _)
\* the index i at which fitWidth's while loop stops
TruncateAt(s, i, count, width) ==
  IF i < Len(s) /\ count < width
  THEN IF At(s, i) = Esc /\ IndexOfM(s, i) >= 0
       THEN TruncateAt(s, IndexOfM(s, i) + 1, count, width)
       ELSE TruncateAt(s, i + 1, count + 1, width)
  ELSE i

RECURSIVE ResetsLen(_)
\* the length of the match of ^(\x1b\[[0-9;]*m)* at the head of rest
ResetsLen(rest) ==
  IF SgrLen(rest) > 0
  THEN SgrLen(rest) + ResetsLen(SubSeq(rest, SgrLen(rest) + 1, Len(rest)))
  ELSE 0

RECURSIVE Repeat(_, _)
\* ch.repeat(n)
Repeat(ch, n) == IF n <= 0 THEN <<>> ELSE <<ch>> \o Repeat(ch, n - 1)

\* a fitWidth that cuts at the width without looking at escape sequences
fitWidth_Raw(s, width) ==
  IF Len(s) >= width THEN SubSeq(s, 1, width) ELSE s \o Repeat(" ", width - Len(s))

\* fitWidth: pad or truncate to a visible width
fitWidth(s, width) ==
  IF Len(stripAnsi(s)) >= width
  THEN LET i == TruncateAt(s, 0, 0, width)
       IN SubSeq(s, 1, i) \o SubSeq(s, i + 1, i + ResetsLen(SubSeq(s, i + 1, Len(s))))
  ELSE s \o Repeat(" ", width - Len(stripAnsi(s)))

\* paint: the lines written, lines.length and rows permitting
paint(lines, rows) ==
  SubSeq(lines, 1, IF Len(lines) < rows THEN Len(lines) ELSE rows)

\* "\x1b[0m"
RESET == <<Esc, "[", "0", "m">>

\* getBoxDimensions for a terminal of cols by rows
getBoxDimensions(cols, rows) ==
  [innerWidth |-> IF cols - 5 > 0 THEN cols - 5 ELSE 0,
   fillWidth |-> IF cols - 3 > 0 THEN cols - 3 ELSE 0,
   contentHeight |-> IF rows - 4 > 1 THEN rows - 4 ELSE 1]

\* renderLayout: header, top border, contentHeight content lines, bottom
\* border, footer; the box-drawing characters are written +, - and |
renderLayout(opts, cols, rows) ==
  LET box == getBoxDimensions(cols, rows) IN
  << <<" ", " ">> \o opts.breadcrumb >>
  \o << <<" ", "+">> \o Repeat("-", box.fillWidth) \o <<"+">> >>
  \o [i \in 1..box.contentHeight |->
        <<" ", "|", " ">>
        \o fitWidth(IF i <= Len(opts.content) THEN opts.content[i] ELSE <<>>, box.innerWidth)
        \o RESET \o <<" ", "|">>]
  \o << <<" ", "+">> \o Repeat("-", box.fillWidth) \o <<"+">> >>
  \o << <<" ", " ">> \o opts.footer >>

\* the characters of codes 32 to 126; the quote, the backslash and the
\* backtick are written by name
Ascii ==
  << " ", "!", "QUOTE", "#", "$", "%", "&", "'", "(", ")", "*", "+", ",", "-", ".", "/",
     "0", "1", "2", "3", "4", "5", "6", "7", "8", "9", ":", ";", "<", "=", ">", "?",
     "@", "A", "B", "C", "D", "E", "F", "G", "H", "I", "J", "K", "L", "M", "N", "O",
     "P", "Q", "R", "S", "T", "U", "V", "W", "X", "Y", "Z", "[", "BACKSLASH", "]", "^", "_",
     "BACKTICK", "a", "b", "c", "d", "e", "f", "g", "h", "i", "j", "k", "l", "m", "n", "o",
     "p", "q", "r", "s", "t", "u", "v", "w", "x", "y", "z", "{", "|", "}", "~" >>

\* String.fromCharCode(n); the characters below 32 and \x7f are written by name
fromCharCode(n) ==
  IF n >= 32 /\ n <= 126 THEN Ascii[n - 31]
  ELSE IF n = 127 THEN "DEL"
  ELSE "CTL"

RECURSIVE StringOfCodes(_)
\* the string of a sequence of character codes
StringOfCodes(s) ==
  IF s = <<>> THEN "" ELSE fromCharCode(Head(s)) \o StringOfCodes(Tail(s))

\* s.startsWith(prefix)
StartsWith(s, prefix) == Len(s) >= Len(prefix) /\ SubSeq(s, 1, Len(prefix)) = prefix

RECURSIVE RemoveAll(_, _)
\* s.replace(/marker/g, "")
RemoveAll(s, marker) ==
  IF s = <<>> THEN <<>>
  ELSE IF StartsWith(s, marker) THEN RemoveAll(SubSeq(s, Len(marker) + 1, Len(s)), marker)
  ELSE <<Head(s)>> \o RemoveAll(Tail(s), marker)

KeyEvent_NoCtrl(raw, name, shift, ctrl) ==
  [raw |-> raw, name |-> name, shift |-> shift, ctrl |-> FALSE]

RECURSIVE NormalizeNewlines(_)
\* s.replace(/\r\n/g, "\n").replace(/\r/g, "\n")
NormalizeNewlines(s) ==
  IF s = <<>> THEN <<>>
  ELSE IF StartsWith(s, <<13, 10>>) THEN <<10>> \o NormalizeNewlines(SubSeq(s, 3, Len(s)))
  ELSE IF Head(s) = 13 THEN <<10>> \o NormalizeNewlines(Tail(s))
  ELSE <<Head(s)>> \o NormalizeNewlines(Tail(s))

KeyEvent(raw, name, shift, ctrl) == [raw |-> raw, name |-> name, shift |-> shift, ctrl |-> ctrl]

\* \x1b[200~ and \x1b[201~
PasteStart == <<27, 91, 50, 48, 48, 126>>
PasteEnd == <<27, 91, 50, 48, 49, 126>>

\* parseKey for the bytes s of one "data" event, as character codes
parseKey(s) ==
  LET ctrl == Len(s) = 1 /\ s[1] < 32 IN
  IF StartsWith(s, PasteStart)
  THEN KeyEvent(NormalizeNewlines(RemoveAll(RemoveAll(s, PasteStart), PasteEnd)),
                "paste", FALSE, FALSE)
  ELSE IF s = <<27, 13>> \/ s = <<27, 10>> THEN KeyEvent(s, "return", TRUE, FALSE)
  ELSE IF s = <<27, 91, 49, 59, 51, 68>> \/ s = <<27, 98>>
  THEN KeyEvent(s, "wordLeft", FALSE, FALSE)
  ELSE IF s = <<27, 91, 49, 59, 51, 67>> \/ s = <<27, 102>>
  THEN KeyEvent(s, "wordRight", FALSE, FALSE)
  ELSE IF s = <<27, 127>> THEN KeyEvent(s, "wordBackspace", FALSE, FALSE)
  ELSE IF s = <<27, 91, 65>> THEN KeyEvent(s, "up", FALSE, FALSE)
  ELSE IF s = <<27, 91, 66>> THEN KeyEvent(s, "down", FALSE, FALSE)
  ELSE IF s = <<27, 91, 67>> THEN KeyEvent(s, "right", FALSE, FALSE)
  ELSE IF s = <<27, 91, 68>> THEN KeyEvent(s, "left", FALSE, FALSE)
  ELSE IF s = <<27, 91, 53, 126>> THEN KeyEvent(s, "pageup", FALSE, FALSE)
  ELSE IF s = <<27, 91, 54, 126>> THEN KeyEvent(s, "pagedown", FALSE, FALSE)
  ELSE IF s = <<27, 91, 90>> THEN KeyEvent(s, "tab", TRUE, FALSE)
  ELSE IF s = <<27>> \/ s = <<27, 27>> THEN KeyEvent(s, "escape", FALSE, FALSE)
  ELSE IF s = <<27, 91, 49, 51, 59, 50, 117>> THEN KeyEvent(s, "return", TRUE, FALSE)
  ELSE IF s = <<27, 91, 50, 55, 59, 50, 59, 49, 51, 126>> THEN KeyEvent(s, "return", TRUE, FALSE)
  ELSE IF s = <<27, 79, 77>> THEN KeyEvent(s, "return", TRUE, FALSE)
  ELSE IF s = <<27, 91, 50, 55, 117>> THEN KeyEvent(s, "escape", FALSE, FALSE)
  ELSE IF s = <<27, 91, 49, 51, 117>> THEN KeyEvent(s, "return", FALSE, FALSE)
  ELSE IF s = <<27, 91, 57, 117>> THEN KeyEvent(s, "tab", FALSE, FALSE)
  ELSE IF s = <<27, 91, 57, 59, 50, 117>> THEN KeyEvent(s, "tab", TRUE, FALSE)
  ELSE IF s = <<27, 91, 49, 50, 55, 117>> THEN KeyEvent(s, "backspace", FALSE, FALSE)
  ELSE IF s = <<13>> \/ s = <<10>> THEN KeyEvent(s, "return", FALSE, FALSE)
  ELSE IF s = <<9>> THEN KeyEvent(s, "tab", FALSE, FALSE)
  ELSE IF s = <<127>> \/ s = <<8>> THEN KeyEvent(s, "backspace", FALSE, FALSE)
  ELSE IF s = <<3>> THEN KeyEvent(s, "c", FALSE, TRUE)
  ELSE IF s = <<4>> THEN KeyEvent(s, "d", FALSE, TRUE)
  ELSE IF ctrl THEN KeyEvent(s, fromCharCode(s[1] + 96), FALSE, TRUE)
  ELSE IF Len(s) > 1 /\ ~StartsWith(s, <<27>>)
  THEN KeyEvent(NormalizeNewlines(s), "paste", FALSE, FALSE)
  ELSE KeyEvent(s, StringOfCodes(s), FALSE, FALSE)

\* ------------------------------------- the functions of term.ts, applied
\* the variables of runApp
app == <<state, quitTimer, timers, spinnerOn, listening, rawMode, fullScreen, tui, inFlight, now>>

\* printable characters and SGR escape sequences
TermTokens ==
  { <<"a">>, <<"m">>, <<"1">>, <<Esc, "[", "m">>, <<Esc, "[", "1", ";", "3", "m">> }

RECURSIVE TermStrings(_)
\* the strings of at most n tokens
TermStrings(n) ==
  IF n = 0 THEN { <<>> }
  ELSE TermStrings(n - 1) \cup { s \o t : s \in TermStrings(n - 1), t \in TermTokens }

FitWidthProbes ==
  { [op |-> "fitWidth", s |-> s, width |-> w, out |-> <<>>, done |-> FALSE] :
      s \in TermStrings(MaxToks), w \in 0..MaxWidth }

\* what a view hands to renderLayout: a breadcrumb, content lines, a footer
LayoutOpts ==
  { [breadcrumb |-> b, content |-> c, footer |-> f] :
      b \in { <<>>, <<Esc, "[", "1", "m", "R", Esc, "[", "2", "2", "m">> },
      c \in { <<>>, << <<"a", "b">> >>, << <<"a">>, <<>>, <<"a", "b", "c">> >> },
      f \in { <<>>, <<"q">> } }

PaintProbes ==
  { [op |-> "paint", cols |-> c, rows |-> r, opts |-> o, out |-> <<>>, done |-> FALSE] :
      c \in 1..MaxCols, r \in 1..MaxRows, o \in LayoutOpts }

\* the escape sequences parseKey knows, a paste with and without the bracket
KeySequences ==
  { <<27, 13>>, <<27, 10>>, <<27, 91, 49, 59, 51, 68>>, <<27, 98>>,
    <<27, 91, 49, 59, 51, 67>>, <<27, 102>>, <<27, 127>>,
    <<27, 91, 65>>, <<27, 91, 66>>, <<27, 91, 67>>, <<27, 91, 68>>,
    <<27, 91, 53, 126>>, <<27, 91, 54, 126>>, <<27, 91, 90>>, <<27, 27>>,
    <<27, 91, 49, 51, 59, 50, 117>>, <<27, 91, 50, 55, 59, 50, 59, 49, 51, 126>>,
    <<27, 79, 77>>, <<27, 91, 50, 55, 117>>, <<27, 91, 49, 51, 117>>,
    <<27, 91, 57, 117>>, <<27, 91, 57, 59, 50, 117>>, <<27, 91, 49, 50, 55, 117>>,
    <<97, 13, 10, 98>>, PasteStart \o <<97, 13, 98>> \o PasteEnd }

\* every single byte of a 7-bit character
SingleBytes == { <<b>> : b \in 0..127 }

ParseKeyProbes ==
  { [op |-> "parseKey", s |-> s, out |-> KeyEvent(<<>>, "", FALSE, FALSE), done |-> FALSE] :
      s \in SingleBytes \cup KeySequences }

InitTerm ==
  /\ InitApp
  /\ probe \in FitWidthProbes \cup PaintProbes \cup ParseKeyProbes

FitWidth ==
  /\ probe.op = "fitWidth"
  /\ ~probe.done
  /\ probe' = [probe EXCEPT !.out = fitWidth(probe.s, probe.width), !.done = TRUE]
  /\ UNCHANGED app

\* paint(renderLayout(opts)) on a terminal of cols by rows
Paint ==
  /\ probe.op = "paint"
  /\ ~probe.done
  /\ probe' = [probe EXCEPT !.out = paint(renderLayout(probe.opts, probe.cols, probe.rows),
                                          probe.rows),
                            !.done = TRUE]
  /\ UNCHANGED app

ParseKey ==
  /\ probe.op = "parseKey"
  /\ ~probe.done
  /\ probe' = [probe EXCEPT !.out = parseKey(probe.s), !.done = TRUE]
  /\ UNCHANGED app

NextTerm == FitWidth \/ Paint \/ ParseKey

SpecTerm == InitTerm /\ [][NextTerm]_vars

\* ------------------------------------------ adjustDatePart, applied twice

DateYears == {1900, 2024, 2025, 2100}
DateHours == {0, 23}
DateMinutes == {0, 59}
DateFormats == {"date", "date-time"}

\* the parts startEditingField hands to the date editor: a calendar date of
\* the years the editor allows, with a time of day under date-time
ValidParts(fmt) ==
  LET ymd == { <<y, m, d>> : y \in DateYears, m \in 1..12, d \in 1..31 }
      dates == { p \in ymd : p[3] <= daysInMonth(p[1], p[2]) }
  IN IF fmt = "date" THEN dates
     ELSE { p \o <<h, mi>> : p \in dates, h \in DateHours, mi \in DateMinutes }

InitDates ==
  /\ InitApp
  /\ \E fmt \in DateFormats : \E parts \in ValidParts(fmt) :
       \E cursor \in 0..(datePartCount(fmt) - 1) :
         probe = [op |-> "adjust", parts |-> parts, cursor |-> cursor, fmt |-> fmt,
                  out |-> parts, step |-> 0]

\* the up key of the date editor
AdjustUp ==
  /\ probe.op = "adjust"
  /\ probe.step = 0
  /\ probe' = [probe EXCEPT !.out = adjustDatePart(probe.out, probe.cursor, 1, probe.fmt),
                            !.step = 1]
  /\ UNCHANGED app

\* the down key of the date editor
AdjustDown ==
  /\ probe.op = "adjust"
  /\ probe.step = 1
  /\ probe' = [probe EXCEPT !.out = adjustDatePart(probe.out, probe.cursor, -1, probe.fmt),
                            !.step = 2]
  /\ UNCHANGED app

NextDates == AdjustUp \/ AdjustDown

SpecDates == InitDates /\ [][NextDates]_vars

\* ------------------------------------------------- the tool list cache

CACHE_TTL_MS == 24 * 60 * 60 * 1000

NoCache == [has |-> FALSE, tools |-> <<>>, fetched_at |-> 0]
ToolsCache(tools, fetched_at) == [has |-> TRUE, tools |-> tools, fetched_at |-> fetched_at]

isCacheValid_AtMost(config, clock) ==
  IF ~config.has THEN FALSE
  ELSE clock - config.fetched_at <= CACHE_TTL_MS

\* config is the tools_cache member of the configuration file, clock is Date.now()
isCacheValid(config, clock) ==
  IF ~config.has THEN FALSE
  ELSE clock - config.fetched_at < CACHE_TTL_MS

\* tool lists, as the names of their tools
ToolLists == { <<"list">>, <<"list", "save">> }

\* fetched_at of a cache file written earlier
FetchTimes == {0, 1000}

\* the time since fetched_at at which getTools is called, around the limit
\* (and before fetched_at, for a clock that was set back)
Elapsed == {-1, 0, 1, CACHE_TTL_MS - 1, CACHE_TTL_MS, CACHE_TTL_MS + 1}

\* the milliseconds connect and listTools can take
Latencies == {0, 1}

CacheFiles == {NoCache} \cup { ToolsCache(t, f) : t \in ToolLists, f \in FetchTimes }

\* one call of getTools: the cache and the clock it starts with, the list the
\* server holds, whether the server was contacted, and what came back
InitCache ==
  /\ InitApp
  /\ \E cache \in CacheFiles, e \in Elapsed, forceRefresh \in BOOLEAN, server \in ToolLists :
       probe = [op |-> "getTools", pc |-> "start", forceRefresh |-> forceRefresh,
                cache0 |-> cache, clock0 |-> cache.fetched_at + e,
                cache |-> cache, clock |-> cache.fetched_at + e,
                server |-> server, contacted |-> FALSE, out |-> <<>>]

\* if (!forceRefresh) { if (isCacheValid(config)) return config.tools_cache.tools }
ReturnCached ==
  /\ probe.op = "getTools"
  /\ probe.pc = "start"
  /\ ~probe.forceRefresh
  /\ isCacheValid(probe.cache, probe.clock)
  /\ probe' = [probe EXCEPT !.pc = "returned", !.out = probe.cache.tools]
  /\ UNCHANGED app

\* await client.connect(transport); await client.listTools()
Connect ==
  /\ probe.op = "getTools"
  /\ probe.pc = "start"
  /\ probe.forceRefresh \/ ~isCacheValid(probe.cache, probe.clock)
  /\ \E d \in Latencies :
       probe' = [probe EXCEPT !.pc = "listing", !.contacted = TRUE, !.clock = @ + d]
  /\ UNCHANGED app

\* listTools resolves: the cache is written and the list returned
ListToolsReturns ==
  /\ probe.op = "getTools"
  /\ probe.pc = "listing"
  /\ probe' = [probe EXCEPT !.pc = "returned",
                            !.cache = ToolsCache(probe.server, probe.clock),
                            !.out = probe.server]
  /\ UNCHANGED app

\* connect, listTools or saveConfig rejects: finally closes the client, the
\* error propagates
ListToolsThrows ==
  /\ probe.op = "getTools"
  /\ probe.pc = "listing"
  /\ probe' = [probe EXCEPT !.pc = "thrown"]
  /\ UNCHANGED app

NextCache == ReturnCached \/ Connect \/ ListToolsReturns \/ ListToolsThrows

SpecCache == InitCache /\ [][NextCache]_vars

\* ------------------------------------- the date editor, key after key

MaxDateWalk == 5

\* the dates the editor is opened on: the ends of the year range, the ends of
\* months of different lengths, a leap day
DateStarts ==
  { <<1900, 1, 1>>, <<2100, 12, 31>>, <<2024, 2, 29>>, <<2024, 1, 31>>, <<2023, 3, 31>>,
    <<2100, 2, 28>> }

TimeStarts == { <<0, 0>>, <<23, 59>> }

InitDateEditor ==
  /\ InitApp
  /\ \E fmt \in DateFormats, ymd \in DateStarts, hm \in TimeStarts :
       probe = [op |-> "dateEditor", fmt |-> fmt,
                dateParts |-> IF fmt = "date-time" THEN ymd \o hm ELSE ymd,
                datePartCursor |-> 0, keys |-> 0]

DateEditorOpen == probe.op = "dateEditor" /\ probe.keys < MaxDateWalk

\* left: Math.max(0, datePartCursor - 1)
DateLeft ==
  /\ DateEditorOpen
  /\ probe' = [probe EXCEPT !.datePartCursor = IF @ - 1 > 0 THEN @ - 1 ELSE 0,
                            !.keys = @ + 1]
  /\ UNCHANGED app

\* right: Math.min(maxPart, datePartCursor + 1)
DateRight ==
  /\ DateEditorOpen
  /\ probe' = [probe EXCEPT !.datePartCursor =
                              IF @ + 1 < datePartCount(probe.fmt) - 1
                              THEN @ + 1 ELSE datePartCount(probe.fmt) - 1,
                            !.keys = @ + 1]
  /\ UNCHANGED app

DateUp ==
  /\ DateEditorOpen
  /\ probe' = [probe EXCEPT !.dateParts = adjustDatePart(@, probe.datePartCursor, 1, probe.fmt),
                            !.keys = @ + 1]
  /\ UNCHANGED app

DateDown ==
  /\ DateEditorOpen
  /\ probe' = [probe EXCEPT !.dateParts = adjustDatePart(@, probe.datePartCursor, -1, probe.fmt),
                            !.keys = @ + 1]
  /\ UNCHANGED app

NextDateEditor == DateLeft \/ DateRight \/ DateUp \/ DateDown

SpecDateEditor == InitDateEditor /\ [][NextDateEditor]_vars

\* ------------------------------------------------------------ properties
KeyEscape == Key("escape", FALSE, "")
KeyCtrlC == Key("c", TRUE, "")
KeyReturn == Key("return", FALSE, "")

\* C1: in every reachable state, a view other than the form view has
\* formEditing = false.
C1_EditingOnlyInForm == state.view # "form" => ~state.formEditing

\* a tool call started from a form whose required text field was edited
C1_Witness ==
  /\ state.view = "loading"
  /\ state.selectedTool = "reader_save"
  /\ Truthy(Get(state.formValues, "url"))

\* C2 as written: in every reachable state, whatever the view, formListCursor
\* is a valid index of formFilteredIndices.
C2_CursorIndexesAlways ==
  0 <= state.formListCursor /\ state.formListCursor < Len(state.formFilteredIndices)

\* C2, amended: in every reachable state whose view is the form view (top-level
\* form, optional picker and sub-forms alike), formListCursor is a valid index
\* of formFilteredIndices.
C2_CursorIndexesInForm == state.view = "form" => C2_CursorIndexesAlways

\* a sub-form palette whose filter leaves nothing but the Add row
C2_Witness ==
  /\ state.view = "form"
  /\ state.formStack # <<>>
  /\ state.formSearchQuery # <<>>
  /\ Len(state.formFilteredIndices) = 1

\* the names of a field list
FieldNames(fields) == {fields[i].name : i \in 1..Len(fields)}

\* C3: in every reachable state of the form view, at every nesting depth (the
\* current form and every parent saved on formStack), the key set of the form
\* values equals the set of field names.
C3_ValuesKeyedByFields ==
  state.view = "form" =>
    /\ DOMAIN state.formValues = FieldNames(state.fields)
    /\ \A i \in 1..Len(state.formStack) :
         DOMAIN state.formStack[i].parentValues = FieldNames(state.formStack[i].parentFields)

\* back in a sub-form after a nested sub-form was added to it
C3_Witness ==
  /\ state.view = "form"
  /\ Len(state.formStack) = 1
  /\ Len(ParseItems(Get(state.formValues, "subs"))) = 1

\* C4: every key event that arrives while view = loading, Ctrl+C included, is
\* dropped: nothing changes, the loop keeps running and the pending call stays
\* pending.
C4_KeysDroppedWhileLoading ==
  [][\A key \in Keys : (state.view = "loading" /\ OnData(key)) => UNCHANGED vars]_vars

\* C5: at most one executeTool call is pending at any time; a call starts only
\* when none is pending and the view is not loading.
C5_OneToolCallInFlight ==
  /\ [](Len(inFlight) <= 1)
  /\ [][Len(inFlight') > Len(inFlight) => (inFlight = <<>> /\ state.view # "loading")]_vars

\* a pending call with a quit timer still scheduled and the spinner ticking
C5_Witness ==
  /\ Len(inFlight) = 1
  /\ state.view = "loading"
  /\ state.spinnerFrame > 0
  /\ timers # {}

\* C6: whenever the full-screen session has ended, by whatever path, the
\* terminal modes enterFullScreen set are undone and stdin raw mode is off.
C6_TerminalReleasedOnExit == tui # "running" => (~fullScreen /\ ~rawMode)

\* the required fields the claim calls unset: the draft trims to empty, or the
\* field is an array of objects whose parsed array is empty
C7_Unset(s) ==
  { s.fields[i].name : i \in
      { j \in 1..Len(s.fields) :
          /\ s.fields[j].required
          /\ \/ Get(s.formValues, s.fields[j].name).t = "str"
                /\ Trim(Get(s.formValues, s.fields[j].name).s) = <<>>
             \/ Get(s.formValues, s.fields[j].name).t = "arr"
                /\ isArrayOfObjects(s.fields[j].prop)
                /\ Get(s.formValues, s.fields[j].name).a = <<>> } }

\* the top-level form waiting for Enter (neither an editor nor the picker open)
C7_Ready(s) == s.formStack = <<>> /\ ~s.formEditing /\ ~s.formShowOptional

\* a sub-form palette with the cursor on its Add/Save row
C7_OnSentinel(s) ==
  /\ s.formStack # <<>>
  /\ ~s.formEditing
  /\ s.formListCursor < Len(s.formFilteredIndices)
  /\ At(s.formFilteredIndices, s.formListCursor) = -1

\* a tool call starts from the form view only when no required field is unset
C7_SubmitNeedsRequired ==
  [][(state.view = "form" /\ Len(inFlight') > Len(inFlight)) => C7_Unset(state) = {}]_vars

C8_QuitNeedsTwoKeys ==
  [][\A key \in {KeyEscape, KeyCtrlC} :
       (state.view = "commands" /\ OnData(key)) =>
         IF state.searchQuery # <<>>
         THEN tui' = "running" /\ state'.searchQuery = <<>> /\ ~state'.quitConfirm
         ELSE IF ~state.quitConfirm
         THEN tui' = "running" /\ state'.quitConfirm
         ELSE tui' = "exited"]_vars

\* the quit timer is scheduled whenever quitConfirm is set
C9_ArmedWhenConfirming == tui = "running" /\ state.quitConfirm => quitTimer \in timers

\* the only timeout that can be pending is the one quitTimer holds
C9_OnePending == timers \subseteq {quitTimer} /\ Cardinality(timers) <= 1

\* an expiry resets quitConfirm and leaves the session running
C9_ExpiryResets ==
  [][\A t \in timers : QuitTimerFires(t) => (~state'.quitConfirm /\ tui' = tui)]_vars

\* C9 as written: the timer is armed whenever quitConfirm becomes true, its
\* expiry resets quitConfirm and the application keeps running, any key that
\* arrives first cancels the pending timer, and no more than one timer, the
\* latest, is ever pending.
C9_AnyKeyCancelsTimer ==
  /\ [](C9_ArmedWhenConfirming /\ C9_OnePending)
  /\ C9_ExpiryResets
  /\ [][\A key \in Keys : (timers # {} /\ OnData(key)) => timers' \cap timers = {}]_vars

\* C9, amended: as written, except that only a key that starts no tool call
\* cancels the pending timer; behind a key that starts one the timer stays
\* scheduled until the call returns.
C9_HandledKeyCancelsTimer ==
  /\ [](C9_ArmedWhenConfirming /\ C9_OnePending)
  /\ C9_ExpiryResets
  /\ [][\A key \in Keys : (timers # {} /\ OnData(key) /\ inFlight' = inFlight)
          => timers' \cap timers = {}]_vars
  /\ [][(timers # {} /\ Len(inFlight') < Len(inFlight)) => timers' \cap timers = {}]_vars

\* a timer armed in the command list and still scheduled behind the tool call
\* that the next key started
C9_Witness ==
  /\ tui = "running"
  /\ state.view = "loading"
  /\ inFlight # <<>>
  /\ ~state.quitConfirm
  /\ quitTimer # 0
  /\ timers = {quitTimer}

\* the sub-form palette that Escape cancels
C10_Cancels(s) ==
  s.view = "form" /\ s.formStack # <<>> /\ ~s.formEditing /\ s.formSearchQuery = <<>>

\* C10: descending into a sub-form saves the parent's fields and formValues on
\* formStack, nothing done inside the sub-form alters a saved entry, and Escape
\* from the sub-form palette restores exactly the saved fields and formValues
\* and removes exactly one entry.
C10_CancelRestoresParent ==
  /\ [][Len(state'.formStack) > Len(state.formStack) =>
          /\ state.formEditing
          /\ isArrayOfObjects(At(state.fields, state.formEditFieldIdx).prop)
          /\ Len(state'.formStack) = Len(state.formStack) + 1
          /\ SubSeq(state'.formStack, 1, Len(state.formStack)) = state.formStack
          /\ state'.formStack[Len(state'.formStack)].parentFields = state.fields
          /\ state'.formStack[Len(state'.formStack)].parentValues = state.formValues]_vars
  /\ [][(tui' # "killed" /\ Len(state'.formStack) <= Len(state.formStack)) =>
          state'.formStack = SubSeq(state.formStack, 1, Len(state'.formStack))]_vars
  /\ [][(C10_Cancels(state) /\ OnData(KeyEscape)) =>
          /\ state'.fields = state.formStack[Len(state.formStack)].parentFields
          /\ state'.formValues = state.formStack[Len(state.formStack)].parentValues
          /\ state'.formStack = SubSeq(state.formStack, 1, Len(state.formStack) - 1)]_vars

\* a sub-form opened on an existing item, edited, and about to be cancelled
C10_Witness ==
  /\ C10_Cancels(state)
  /\ state.formStack[Len(state.formStack)].editIndex >= 0
  /\ \E n \in DOMAIN state.formValues :
       state.formValues[n] #
         Prepopulate(At(ParseItems(Get(state.formStack[Len(state.formStack)].parentValues,
                                       state.formStack[Len(state.formStack)].parentFieldName)),
                        state.formStack[Len(state.formStack)].editIndex), n)

\* the top entry of formStack
C11_Top(s) == s.formStack[Len(s.formStack)]

\* the parent's array draft that the sub-form of s edits
C11_ParentArr(s) == ParseItems(Get(C11_Top(s).parentValues, C11_Top(s).parentFieldName))

\* Enter on the Add/Save row of a sub-form whose required fields are all set
C11_Saves(s) ==
  s.view = "form" /\ C7_OnSentinel(s) /\ missingRequiredFields(s.fields, s.formValues) = {}

\* C11: when Add/Save is confirmed in a sub-form, with editIndex = -1 the
\* parent's array draft gains exactly one element, appended last and equal to
\* the serialized sub-form values, the earlier elements unchanged; with
\* editIndex = i >= 0 the length is unchanged and only element i is replaced;
\* every other draft of the parent is unchanged.
C11_SaveWritesOneElement ==
  [][(C11_Saves(state) /\ onData(KeyReturn)) =>
       LET entry == C11_Top(state)
           old == C11_ParentArr(state)
           new == ParseItems(Get(state'.formValues, entry.parentFieldName))
           obj == SubObject(state.fields, state.formValues)
       IN /\ DOMAIN state'.formValues = DOMAIN entry.parentValues
          /\ \A n \in DOMAIN entry.parentValues \ {entry.parentFieldName} :
               state'.formValues[n] = entry.parentValues[n]
          /\ state'.formValues[entry.parentFieldName].t = "arr"
          /\ IF entry.editIndex = -1
             THEN /\ Len(new) = Len(old) + 1
                  /\ SubSeq(new, 1, Len(old)) = old
                  /\ new[Len(new)] = obj
             ELSE /\ Len(new) = Len(old)
                  /\ \A j \in 1..Len(old) :
                       new[j] = IF j = entry.editIndex + 1 THEN obj ELSE old[j]]_vars

\* a changed second item about to be saved over the old one, next to a first
\* item that differs from it
C11_Witness ==
  /\ C11_Saves(state)
  /\ C11_Top(state).editIndex = 1
  /\ Len(C11_ParentArr(state)) = 2
  /\ SubObject(state.fields, state.formValues) # C11_ParentArr(state)[2]
  /\ C11_ParentArr(state)[1] # C11_ParentArr(state)[2]

\* C12: in every reachable state the draft of every array-of-objects field, in
\* the form being shown and in every suspended parent form, is the JSON text
\* of an array or the empty draft of a field that has no value yet.
C12_ArrayDraftsOk(fields, values) ==
  \A i \in 1..Len(fields) :
    isArrayOfObjects(fields[i].prop) =>
      \/ Get(values, fields[i].name).t = "arr"
      \/ Get(values, fields[i].name) = EmptyStr

C12_ArrayDraftIsJsonArray ==
  /\ C12_ArrayDraftsOk(state.fields, state.formValues)
  /\ \A k \in 1..Len(state.formStack) :
       C12_ArrayDraftsOk(state.formStack[k].parentFields, state.formStack[k].parentValues)

\* C13: when an editor confirms (Enter in a text, bool, enum, date or
\* multi-select editor, Enter on the empty input line of a list-of-texts
\* editor), formValues changes in at most the entry of the field being edited:
\* no other draft changes and no key is added or removed.
C13_Kind(s) == classifyField(At(s.fields, s.formEditFieldIdx).prop)

C13_Confirms(s) ==
  /\ s.view = "form"
  /\ s.formEditing
  /\ C13_Kind(s) # "arrayObj"
  /\ C13_Kind(s) = "arrayText" =>
       /\ s.formEnumCursor >=
            Len(SplitStrings(Get(s.formValues, At(s.fields, s.formEditFieldIdx).name).s))
       /\ Trim(s.formInputBuf) = <<>>

C13_ConfirmWritesOneEntry ==
  [][(C13_Confirms(state) /\ onData(KeyReturn)) =>
       /\ DOMAIN state'.formValues = DOMAIN state.formValues
       /\ \A n \in DOMAIN state.formValues \ {At(state.fields, state.formEditFieldIdx).name} :
            state'.formValues[n] = state.formValues[n]]_vars

\* both fields of reader_list confirmed, the date after an adjustment
C13_Witness ==
  /\ state.view = "form"
  /\ state.selectedTool = "reader_list"
  /\ ~state.formEditing
  /\ Get(state.formValues, "when").s = datePartsToString(<<2025, 1, 31>>, "date")
  /\ Get(state.formValues, "location").s = Locations[2]

\* C14: Escape in a text, number, bool, enum or date editor closes the editor
\* and leaves formValues as it was when the editor was opened: while such an
\* editor is open no key but the confirming ones (Enter; Backspace in the date
\* editor, which clears the date) changes formValues, and Escape changes
\* nothing of it and ends the editing.
C14_Editing(s) ==
  /\ s.view = "form"
  /\ s.formEditing
  /\ C13_Kind(s) \in {"text", "bool", "enum", "date"}

C14_EscapeDiscardsEdit ==
  [][\A key \in KindKeys :
       (C14_Editing(state) /\ onData(key)) =>
         /\ key.name = "escape" => ~state'.formEditing
         /\ (key.name # "return" /\ ~(C13_Kind(state) = "date" /\ key.name = "backspace"))
              => state'.formValues = state.formValues]_vars

\* the date editor reopened on a confirmed date, the year moved on, and the
\* editor left without confirming
C14_Witness ==
  /\ tui = "running"
  /\ state.view = "form"
  /\ state.selectedTool = "reader_list"
  /\ ~state.formEditing
  /\ Get(state.formValues, "when").s = datePartsToString(<<2024, 1, 31>>, "date")
  /\ state.dateParts = <<2025, 1, 31>>

\* C15: in the top-level form, after an editor confirm, if some required field
\* is still unset the first unset required field in schema order becomes the
\* active field (its editor is open).
C15_FirstUnset(s) ==
  FirstIn({ i \in 1..Len(s.fields) : s.fields[i].name \in C7_Unset(s) })

C15_ConfirmOpensFirstUnset ==
  [][(/\ state.formStack = <<>>
      /\ C13_Confirms(state)
      /\ onData(KeyReturn)
      /\ C7_Unset(state') # {})
     => /\ state'.view = "form"
        /\ state'.formEditing
        /\ state'.formEditFieldIdx = C15_FirstUnset(state')]_vars

\* C16: Enter in the command list on a tool whose schema has no properties
\* leads in one step to the loading view and starts the call with no
\* arguments; the form view is never entered on the way.
C16_OnToolWithoutParams(s) ==
  /\ s.view = "commands"
  /\ s.listCursor < Len(s.filteredItems)
  /\ ~At(s.filteredItems, s.listCursor).isSeparator
  /\ Len(Schema(ToolNamed(At(s.filteredItems, s.listCursor).value).schema).properties) = 0

C16_NoParamsGoesToLoading ==
  [][(C16_OnToolWithoutParams(state) /\ onData(KeyReturn))
     => /\ state'.view = "loading"
        /\ state'.selectedTool = At(state.filteredItems, state.listCursor).value
        /\ inFlight' = Append(inFlight, Call(state'))
        /\ ArgNames(state'.fields, state'.formValues) = {}]_vars

C16_Witness ==
  /\ state.view = "loading"
  /\ state.selectedTool = "reader_ping"
  /\ Len(inFlight) = 1
  /\ inFlight[1].st = state
  /\ inFlight[1].pc = "call"
  /\ Len(Schema(ToolNamed("reader_ping").schema).properties) = 0

\* C17: in the results view Escape or Enter leads to the form when the selected
\* tool has a parameter and the result was not empty (an error, or a result
\* text of at least one character), and to the command list otherwise; the
\* application keeps running and no call is started.
C17_HasParams(s) ==
  /\ s.selectedTool # "null"
  /\ Len(Schema(ToolNamed(s.selectedTool).schema).properties) > 0

C17_BackKeys == {KeyEscape, KeyReturn}

C17_GoesBack(nonEmpty) ==
  \A key \in C17_BackKeys :
    (state.view = "results" /\ onData(key))
    => /\ state'.view = IF C17_HasParams(state) /\ nonEmpty THEN "form" ELSE "commands"
       /\ tui' = "running"
       /\ listening'
       /\ inFlight' = inFlight

C18_SameDrafts ==
  /\ state'.fields = state.fields
  /\ state'.formValues = state.formValues

C18_ComesBack(s) ==
  /\ s.view = "results"
  /\ C17_HasParams(s)
  /\ ResultsMode(s) \in {"text", "noResults", "error"}

C18_DraftsSurviveCall ==
  [][/\ (state.view = "form" /\ state'.view = "loading") => C18_SameDrafts
     /\ (state.view = "loading" /\ state'.view \in {"loading", "results"}) => C18_SameDrafts
     /\ (state.view = "results" /\ state'.view \in {"results", "form"}) => C18_SameDrafts
     /\ \A key \in C17_BackKeys :
          (C18_ComesBack(state) /\ onData(key)) => (state'.view = "form" /\ C18_SameDrafts)]_vars

C18_Witness ==
  /\ C18_ComesBack(state)
  /\ tui = "running"
  /\ ResultsMode(state) = "noResults"
  /\ state.selectedTool = "reader_save"
  /\ Get(state.formValues, "url") # EmptyStr

\* C19: when callTool throws or returns isError, the next state is the results
\* view in error mode with a non-empty message (not the success screen, not
\* the no-results screen), the application keeps running, and Escape or Enter
\* from that state leads to the form.
C19_Failures == {"error", "errorNoMessage"}

C19_FailureShowsError ==
  [][\A i \in 1..Len(inFlight), outcome \in C19_Failures :
       ToolReturns(i, outcome)
       => /\ state'.view = "results"
          /\ ResultsMode(state') = "error"
          /\ state'.error # ""
          /\ tui' = "running"
          /\ listening'
          /\ \A key \in C17_BackKeys : handleResultsInput(state', key).st.view = "form"]_vars

\* C20: every executeTool call calls ensureValidToken exactly once, and before
\* callTool: while it waits for the token callTool has not been called, and
\* when it returns from callTool both have been called once. When
\* ensureValidToken fails, callTool is not called and the results view shows
\* the error.
C20_Pending(c) ==
  /\ c.tokenCalls = 1
  /\ c.toolCalls = IF c.pc = "token" THEN 0 ELSE 1

C20_TokenOnceBeforeCall ==
  [][/\ \A i \in 1..Len(inFlight') : C20_Pending(inFlight'[i])
     /\ \A i \in 1..Len(inFlight), outcome \in ToolOutcomes :
          ToolReturns(i, outcome)
          => (inFlight[i].tokenCalls = 1 /\ inFlight[i].toolCalls = 1)
     /\ \A i \in 1..Len(inFlight) :
          TokenReturns(i, "noToken")
          => /\ inFlight[i].tokenCalls = 1
             /\ inFlight[i].toolCalls = 0
             /\ inFlight' = RemoveAt(inFlight, i - 1)
             /\ state'.view = "results"
             /\ ResultsMode(state') = "error"]_vars

C20_Witness ==
  /\ state.view = "loading"
  /\ tui = "running"
  /\ state.selectedTool = "reader_save"
  /\ Len(inFlight) = 1
  /\ inFlight[1].pc = "token"
  /\ inFlight[1].tokenCalls = 1
  /\ inFlight[1].toolCalls = 0

\* C21: while the process lives, every change of view follows an edge of the
\* state machine: commands to form; commands to loading for a tool without
\* parameters only; form to loading only by Enter with an empty formStack and
\* no required field missing; form to commands by Escape; loading to results
\* only when a pending call returns; results to form; results to commands.
C21_Edge ==
  \/ /\ state.view = "commands" /\ state'.view = "form"
     /\ onData(KeyReturn)
     /\ ~C16_OnToolWithoutParams(state)
  \/ /\ state.view = "commands" /\ state'.view = "loading"
     /\ onData(KeyReturn)
     /\ C16_OnToolWithoutParams(state)
  \/ /\ state.view = "form" /\ state'.view = "loading"
     /\ onData(KeyReturn)
     /\ state.formStack = <<>>
     /\ missingRequiredFields(state.fields, state.formValues) = {}
  \/ /\ state.view = "form" /\ state'.view = "commands"
     /\ onData(KeyEscape)
  \/ /\ state.view = "loading" /\ state'.view = "results"
     /\ Len(inFlight') = Len(inFlight) - 1
  \/ /\ state.view = "results" /\ state'.view \in {"form", "commands"}
     /\ \E key \in C17_BackKeys : onData(key)

C21_ViewFollowsEdges ==
  [][(state'.view # state.view /\ tui' # "killed") => C21_Edge]_vars

C21_Witness ==
  /\ state.view = "results"
  /\ tui = "running"
  /\ state.selectedTool = "reader_save"
  /\ inFlight = <<>>
  /\ ResultsMode(state) = "text"

\* C22: a key event the handler of the current view and mode has no binding
\* for leaves the state equal to the state before it, the quitConfirm flag,
\* the cursors and the drafts included.
C22_Rejects(s, key) ==
  /\ ~IsCtrlC(key)
  /\ \/ s.view = "commands" /\ key.name = "tab"
     \/ s.view = "results" /\ key.name \in {"tab", "backspace"} \cup (Chars \ {"q"})
     \/ s.view = "loading"
     \/ /\ s.view = "form"
        /\ s.formStack = <<>> /\ ~s.formEditing /\ ~s.formShowOptional
        /\ key.name \in {"up", "down"} \cup Chars

C22_RejectedKeyKeepsState ==
  [][\A key \in Keys : (C22_Rejects(state, key) /\ onData(key)) => state' = state]_vars

\* C22 as the code has it: a key without a binding clears quitConfirm in the
\* command list and in the results view, and leaves everything else as it was.
C22_RejectedKeyClearsQuitConfirm ==
  [][\A key \in Keys :
       (C22_Rejects(state, key) /\ onData(key))
       => state' = [state EXCEPT !.quitConfirm = FALSE]]_vars

C22_Witness ==
  /\ state.view = "results"
  /\ tui = "running"
  /\ listening
  /\ state.quitConfirm
  /\ \E key \in Keys : C22_Rejects(state, key)

\* C23: on a terminal of cols by rows, cols and rows at least 1, the paint of
\* a rendered view writes exactly rows lines, and no line written has more
\* than cols visible columns.
C23_PaintFitsTerminal ==
  (probe.op = "paint" /\ probe.done)
  => /\ Len(probe.out) = probe.rows
     /\ \A i \in 1..Len(probe.out) : Len(stripAnsi(probe.out[i])) <= probe.cols

\* C24: for a string of printable characters and SGR escape sequences and a
\* width of at least 0, the result of fitWidth has a visible width (its length
\* after stripAnsi) of exactly the width.
C24_FitWidthIsExact ==
  (probe.op = "fitWidth" /\ probe.done) => Len(stripAnsi(probe.out)) = probe.width

\* a string with an escape sequence inside was cut to a shorter visible width
C24_Witness ==
  /\ probe.op = "fitWidth"
  /\ probe.done
  /\ probe.width > 0
  /\ Len(stripAnsi(probe.s)) > probe.width
  /\ Len(probe.s) > Len(stripAnsi(probe.s))
  /\ Len(probe.out) > probe.width

\* C25: for valid parts, every cursor position and both formats, one step up
\* and then one step down at the same cursor gives the original parts again,
\* unless the day was lost to the day clamp on a change of month.
C25_DayLostOnMonthChange ==
  /\ probe.cursor = 1
  /\ probe.parts[3] > daysInMonth(probe.parts[1], (probe.parts[2] % 12) + 1)
  /\ probe.out = [probe.parts EXCEPT ![3] = daysInMonth(probe.parts[1],
                                                         (probe.parts[2] % 12) + 1)]

C25_UpDownIsIdentity ==
  (probe.op = "adjust" /\ probe.step = 2)
    => (probe.out = probe.parts \/ C25_DayLostOnMonthChange)

\* C25 as the code has it: the year does not go past 2100, so up and down from
\* 2100 ends at 2099, and the 29th of February is clamped to the 28th on a
\* change of year as well.
C25_YearStopsAtLimit ==
  /\ probe.cursor = 0
  /\ probe.parts[1] = 2100
  /\ probe.out = [probe.parts EXCEPT ![1] = 2099]

C25_DayLostOnYearChange ==
  /\ probe.cursor = 0
  /\ probe.parts[1] < 2100
  /\ probe.parts[3] > daysInMonth(probe.parts[1] + 1, probe.parts[2])
  /\ probe.out = [probe.parts EXCEPT ![3] = daysInMonth(probe.parts[1] + 1,
                                                         probe.parts[2])]

C25_UpDownIsIdentityBelowLimit ==
  (probe.op = "adjust" /\ probe.step = 2)
    => IF probe.cursor = 0 /\ probe.parts[1] = 2100 THEN C25_YearStopsAtLimit
       ELSE IF probe.cursor = 0
               /\ probe.parts[3] > daysInMonth(probe.parts[1] + 1, probe.parts[2])
       THEN C25_DayLostOnYearChange
       ELSE IF probe.cursor = 1
               /\ probe.parts[3] > daysInMonth(probe.parts[1], (probe.parts[2] % 12) + 1)
       THEN C25_DayLostOnMonthChange
       ELSE probe.out = probe.parts

\* up and down at the year of the 29th of February 2024, time of day kept
C25_Witness ==
  /\ probe.op = "adjust"
  /\ probe.step = 2
  /\ probe.cursor = 0
  /\ probe.parts = <<2024, 2, 29, 23, 59>>
  /\ probe.out = <<2024, 2, 28, 23, 59>>

\* C26: for the drafts the editors leave in formValues, building the arguments
\* with formValuesToArgs and then the drafts again, as the sub-form does from
\* a stored item, gives every non-empty draft back unchanged.
C26_Rebuilt(f) == SubDraft(formValuesToArgs(state.fields, state.formValues), TRUE, f)

C26_DraftsSurviveArgs ==
  state.view = "form" =>
    \A i \in 1..Len(state.fields) :
      Truthy(Get(state.formValues, state.fields[i].name))
        => C26_Rebuilt(state.fields[i]) = Get(state.formValues, state.fields[i].name)

\* C27: for every single input byte b from 1 to 31, parseKey answers ctrl true
\* and the name chr(b + 96); byte 3 is named c and byte 4 is named d.
C27_ControlByte ==
  probe.op = "parseKey" /\ probe.done /\ Len(probe.s) = 1 /\ probe.s[1] \in 1..31

C27_CtrlLetter ==
  /\ probe.out.ctrl
  /\ ~probe.out.shift
  /\ probe.out.name = fromCharCode(probe.s[1] + 96)
  /\ probe.s = <<3>> => probe.out.name = "c"
  /\ probe.s = <<4>> => probe.out.name = "d"

C27_ControlBytesAreCtrlLetters == C27_ControlByte => C27_CtrlLetter

\* C27 as the code has it: backspace (8), tab (9), line feed and carriage
\* return (10, 13) and escape (27) are named keys without ctrl; the other
\* bytes from 1 to 31 are ctrl letters.
C27_NamedKey(name) ==
  /\ ~probe.out.ctrl
  /\ ~probe.out.shift
  /\ probe.out.name = name

C27_ControlBytesExceptNamedKeys ==
  C27_ControlByte =>
    /\ probe.out.raw = probe.s
    /\ IF probe.s[1] = 8 THEN C27_NamedKey("backspace")
       ELSE IF probe.s[1] = 9 THEN C27_NamedKey("tab")
       ELSE IF probe.s[1] \in {10, 13} THEN C27_NamedKey("return")
       ELSE IF probe.s[1] = 27 THEN C27_NamedKey("escape")
       ELSE C27_CtrlLetter

\* byte 3 parsed as Ctrl+C
C27_Witness ==
  /\ C27_ControlByte
  /\ probe.s = <<3>>
  /\ probe.out = KeyEvent(<<3>>, "c", FALSE, TRUE)

\* C28: getTools without forceRefresh returns the cached list without
\* contacting the server exactly when a cache exists and less than 24 hours
\* have passed since its fetched_at; otherwise, and always with forceRefresh,
\* it contacts the server and a call that returns has overwritten the cache
\* with the fetched list and the time of the write.  A call that throws had
\* contacted the server and leaves the cache as it was.
C28_Fresh ==
  probe.cache0.has /\ probe.clock0 - probe.cache0.fetched_at < 24 * 60 * 60 * 1000

C28_CachedIffFresh ==
  (probe.op = "getTools" /\ probe.pc \in {"returned", "thrown"}) =>
    IF ~probe.forceRefresh /\ C28_Fresh
    THEN /\ probe.pc = "returned"
         /\ ~probe.contacted
         /\ probe.out = probe.cache0.tools
         /\ probe.cache = probe.cache0
    ELSE /\ probe.contacted
         /\ probe.pc = "returned" =>
              /\ probe.out = probe.server
              /\ probe.cache = ToolsCache(probe.server, probe.clock)
         /\ probe.pc = "thrown" => probe.cache = probe.cache0

\* a cache exactly 24 hours old is fetched again and overwritten
C28_Witness ==
  /\ probe.op = "getTools"
  /\ probe.pc = "returned"
  /\ ~probe.forceRefresh
  /\ probe.cache0 = ToolsCache(<<"list">>, 1000)
  /\ probe.clock0 = 1000 + 24 * 60 * 60 * 1000
  /\ probe.server = <<"list", "save">>
  /\ probe.contacted
  /\ probe.cache = ToolsCache(<<"list", "save">>, probe.clock0 + 1)

\* C29: a tick of the spinner interval changes the state only in the loading
\* view, and then only spinnerFrame, by one; in any other view it changes
\* nothing.  It works on the state as the callbacks before it left it, and
\* leaves the pending calls, the timers and the terminal alone.
C29_TickChangesOnlySpinnerFrame ==
  [][SpinnerTick =>
       /\ state.view = "loading" =>
            state' = [state EXCEPT !.spinnerFrame = state.spinnerFrame + 1]
       /\ state.view # "loading" => state' = state
       /\ UNCHANGED <<quitTimer, timers, spinnerOn, listening, rawMode, fullScreen, tui,
                      inFlight>>]_vars

\* a tick has counted while a call is pending and a key was typed before it
C29_Witness ==
  /\ state.view = "loading"
  /\ state.spinnerFrame = 1
  /\ inFlight # <<>>
  /\ tui = "running"

\* C30: when every token load and every tool call settles, the loading view
\* is always followed by the results view, and while the process lives the
\* loading view is left for no other view than results.
C30_LeavesForResults ==
  (state.view = "loading" /\ state'.view # "loading" /\ tui' # "killed")
    => state'.view = "results"

C30_LoadingLeadsToResults ==
  /\ (state.view = "loading") ~> (state.view = "results" \/ tui = "killed")
  /\ [][C30_LeavesForResults]_vars

\* the results of a call that failed after the spinner had turned
C30_Witness ==
  /\ state.view = "results"
  /\ state.error = "error"
  /\ state.spinnerFrame = 0
  /\ inFlight = <<>>
  /\ tui = "running"

\* C31: from a calendar date of the years 1900 to 2100, after any sequence of
\* left, right, up and down keys of the date editor, the year is within 1900
\* and 2100, the month within 1 and 12, the day within 1 and the length of the
\* month, the hour within 0 and 23, the minute within 0 and 59, and the cursor
\* is the index of one of the parts.
C31_PartsAreADate ==
  probe.op = "dateEditor" =>
    /\ Len(probe.dateParts) = datePartCount(probe.fmt)
    /\ probe.dateParts[1] >= 1900 /\ probe.dateParts[1] <= 2100
    /\ probe.dateParts[2] >= 1 /\ probe.dateParts[2] <= 12
    /\ probe.dateParts[3] >= 1
    /\ probe.dateParts[3] <= (IF probe.dateParts[2] = 2
                              THEN (IF IsLeap(probe.dateParts[1]) THEN 29 ELSE 28)
                              ELSE IF probe.dateParts[2] \in {4, 6, 9, 11} THEN 30 ELSE 31)
    /\ probe.fmt = "date-time" =>
         /\ probe.dateParts[4] >= 0 /\ probe.dateParts[4] <= 23
         /\ probe.dateParts[5] >= 0 /\ probe.dateParts[5] <= 59
    /\ probe.datePartCursor >= 0
    /\ probe.datePartCursor < Len(probe.dateParts)

\* 31 January 2024, right and up: the month is February and the day the 29th
C31_Witness ==
  /\ probe.op = "dateEditor"
  /\ probe.keys = 2
  /\ probe.datePartCursor = 1
  /\ probe.dateParts = <<2024, 2, 29>>

\* C32: once cleanup has run and the terminal is released, the state is not
\* assigned again (every assignment of the state is followed by a paint).
C32_NoUpdateAfterExit == [][tui = "exited" => state' = state]_vars

\* C33: in the commands view listCursor is a defined integer, and when
\* filteredItems has a selectable item listCursor is the index of a
\* non-separator item, after any typing, paste, backspace, up, down, page-up
\* and page-down, page keys on an empty list included.
C33_CursorOnACommand ==
  state.view = "commands" =>
    /\ state.listCursor # Undefined
    /\ selectableIndices(state.filteredItems) # <<>> =>
         /\ state.listCursor >= 0
         /\ state.listCursor < Len(state.filteredItems)
         /\ ~At(state.filteredItems, state.listCursor).isSeparator

\* C34: at a fixed terminal size, after any sequence of up, down, page-up and
\* page-down in the commands view, the highlighted command is one of the rows
\* renderCommandList draws.
C34_CursorIsDrawn ==
  (probe.op = "terminal" /\ state.view = "commands"
     /\ selectableIndices(state.filteredItems) # <<>>)
    => state.listCursor \in DrawnItems(state)

\* C35: in the palette of a sub-form, while the optional fields are collapsed
\* (formShowOptional false, no search text), formListCursor points at a
\* required field or at the Add/Save row.
C35_Collapsed ==
  /\ state.view = "form"
  /\ state.formStack # <<>>
  /\ ~state.formEditing
  /\ ~state.formShowOptional
  /\ state.formSearchQuery = <<>>

C35_CursorSkipsOptional ==
  C35_Collapsed =>
    /\ state.formListCursor >= 0
    /\ state.formListCursor < Len(state.formFilteredIndices)
    /\ \/ At(state.formFilteredIndices, state.formListCursor) = -1
       \/ At(state.fields, At(state.formFilteredIndices, state.formListCursor)).required

\* C36: in the ready state of the top-level form (no editor, optional picker
\* closed) Enter makes progress: it submits when no required field is unset,
\* otherwise it opens the editor of an unset required field; the state is
\* never returned unchanged.
C36_Ready ==
  /\ state.view = "form"
  /\ state.formStack = <<>>
  /\ ~state.formEditing
  /\ ~state.formShowOptional

C36_Progress(result) ==
  IF missingRequiredFields(state.fields, state.formValues) = {}
  THEN result.tag = "submit"
  ELSE /\ result.tag = "state"
       /\ result.st # state
       /\ result.st.formEditing
       /\ result.st.formEditFieldIdx >= 0
       /\ At(state.fields, result.st.formEditFieldIdx).name
            \in missingRequiredFields(state.fields, state.formValues)

C36_EnterMakesProgress ==
  C36_Ready => C36_Progress(handleInput(state, Key("return", FALSE, "")))

\* C37: for every shape of property, the kind of editor the renderer draws
\* (classifyField), the editor startEditingField prepares and the branch of
\* handleFormEditInput that handles the keys, Escape included, are the same kind.
C37_EditedProp == At(state.fields, state.formEditFieldIdx).prop

C37_KindsAgree ==
  state.view = "form" /\ state.formEditing =>
    /\ startEditingKind(C37_EditedProp) = classifyField(C37_EditedProp)
    /\ editInputKind(C37_EditedProp) = classifyField(C37_EditedProp)
    /\ escapeConfirms(C37_EditedProp) <=> classifyField(C37_EditedProp) = "arrayEnum"

\* C38: a form stack that is not empty is only found in the form view, so
\* every tool call starts from a state with an empty stack; a step changes the
\* depth of the stack by at most one, it grows by one exactly in a descent into
\* an item, and it shrinks by one exactly when a sub-form is left, by Add/Save
\* or by cancelling.
C38_Top == state.formStack[Len(state.formStack)]

C38_SubFormLeft ==
  /\ state.view = "form" /\ state.formStack # <<>> /\ ~state.formEditing
  /\ state'.formEditing
  /\ state'.fields = C38_Top.parentFields

C38_Step ==
  LET d == Len(state'.formStack) - Len(state.formStack) IN
  /\ d \in {-1, 0, 1}
  /\ d = 1 => state.view = "form" /\ state.formEditing
               /\ state'.formStack = descend(state).formStack
  /\ d = -1 => state.view = "form" /\ ~state.formEditing
                /\ state' \in {popFormStack(state), cancelSubForm(state)}
  /\ C38_SubFormLeft => d = -1

C38_StackOnlyInForm ==
  /\ [](state.formStack # <<>> => state.view = "form")
  /\ [](\A i \in 1..Len(inFlight) : inFlight[i].st.formStack = <<>>)
  /\ [][tui' # "killed" => C38_Step]_vars

\* inside a sub-form of a sub-form, with one item already saved one level up
C38_Witness ==
  /\ Len(state.formStack) = 2
  /\ \E n \in DOMAIN state.formStack[1].parentValues :
       ParseItems(state.formStack[1].parentValues[n]) # <<>>

\* C39: in the list-of-texts editor, re-editing an item with Enter and then
\* pressing Escape leaves the item in the field's draft: only Backspace on an
\* item removes it.
C39_Field == At(state.fields, state.formEditFieldIdx)

C39_Items(s) == SplitStrings(Get(s.formValues, C39_Field.name).s)

C39_OnAnItem ==
  /\ state.view = "form" /\ state.formEditing
  /\ classifyField(C39_Field.prop) = "arrayText"
  /\ state.formEnumCursor < Len(C39_Items(state))

C39_AfterEnterEscape ==
  handleInput(handleInput(state, Key("return", FALSE, "")).st, Key("escape", FALSE, "")).st

C39_ReEditKeepsItem ==
  C39_OnAnItem =>
    \E i \in 1..Len(C39_Items(C39_AfterEnterEscape)) :
      C39_Items(C39_AfterEnterEscape)[i] = At(C39_Items(state), state.formEnumCursor)

\* C40: opening an existing item of an array of objects in its sub-form and
\* saving it without editing any field leaves the parent's array equal, as a
\* JSON value, to the array before the descent.
C40_Field == At(state.fields, state.formEditFieldIdx)

C40_OnAnItem ==
  /\ state.view = "form" /\ state.formEditing
  /\ classifyField(C40_Field.prop) = "arrayObj"
  /\ state.formEnumCursor < Len(ParseItems(Get(state.formValues, C40_Field.name)))
  /\ missingRequiredFields(descend(state).fields, descend(state).formValues) = {}

C40_SaveUnedited ==
  C40_OnAnItem =>
    ParseItems(Get(popFormStack(descend(state)).formValues, C40_Field.name))
      = ParseItems(Get(state.formValues, C40_Field.name))

====
